---- MODULE Spec2Model ----
(***************************************************************************)
(* Model of the fluxa chat agent: the SQLite-backed message store          *)
(* (memory/database.py, memory/manager.py), the streaming gateway          *)
(* (llm/client.py) and the turn orchestration of Agent.chat                *)
(* (core/agent.py).                                                        *)
(*                                                                         *)
(* Text is modelled by TLA+ strings (concatenation is \o).  JSON values    *)
(* are tagged records, one field name per JSON type.  A line of the event  *)
(* stream is a record that keeps the parts the parser of                   *)
(* LLMClient._stream_response looks at: leading whitespace, the "data: "   *)
(* prefix and the text after it.                                           *)
(***************************************************************************)
EXTENDS Integers, Sequences, FiniteSets, TLC

\* ------------------------------------------------------------------ bounds
MaxFrames == 3

MaxFragments == 2

MaxMessages == 3

MaxConversations == 2

MaxClock == 1

MaxImages == 3

MaxAnalyses == 1

MaxToolExecutions == 1

MaxTasks == 2

\* Connections left behind by repeated initialize.
MaxOrphans == 1

\* ------------------------------------------------------------- JSON values
JNull == [t |-> "null"]

JNum(n) == [t |-> "num", n |-> n]

JStr(s) == [t |-> "str", s |-> s]

JList(items) == [t |-> "list", items |-> items]

JObj(fields) == [t |-> "obj", fields |-> fields]

JBool(b) == [t |-> "bool", b |-> b]

EmptyDict == [x \in {} |-> JNull]

\* Python truth value of a decoded JSON value (None, 0, "", [], {} are false).
Truthy(j) ==
    CASE j.t = "null" -> FALSE
      [] j.t = "num"  -> j.n # 0
      [] j.t = "str"  -> j.s # ""
      [] j.t = "list" -> Len(j.items) > 0
      [] j.t = "obj"  -> DOMAIN j.fields # {}
      [] j.t = "bool" -> j.b

\* dict.get(key, default) on a value known to be a dict.
DictGet(j, key, default) ==
    IF key \in DOMAIN j.fields THEN j.fields[key] ELSE default

\* ------------------------------------------------- lines of the event stream
\* body kinds: "empty" (no text), "text" (arbitrary non-JSON text),
\* "done" (exactly [DONE]), "done_ws" ([DONE] followed by a blank),
\* "json" (the text of the JSON value j).
EmptyBody == [k |-> "empty"]

TextBody == [k |-> "text"]

DoneBody == [k |-> "done"]

DoneWsBody == [k |-> "done_ws"]

JsonBody(j) == [k |-> "json", j |-> j]

Line(indent, prefix, body) == [indent |-> indent, prefix |-> prefix, body |-> body]

\* not line.strip(): nothing but whitespace on the line
IsBlank(line) == ~line.prefix /\ line.body.k = "empty"

\* line.startswith("data: ")
StartsWithData(line) == ~line.indent /\ line.prefix

\* line[6:] == "[DONE]"
IsDone(line) == line.body.k = "done"

\* json.loads(line[6:]) succeeds exactly on the text of one JSON value
JsonLoads(body) ==
    IF body.k = "json" THEN [ok |-> TRUE, j |-> body.j] ELSE [ok |-> FALSE]

\* The try block of _stream_response applied to the decoded frame: the
\* outcome is "skip" (continue), "yield" with the content, or "raise" with
\* the exception that `except json.JSONDecodeError` does not catch.
DecodeFrame(data) ==
    IF data.t # "obj" THEN [out |-> "raise", exc |-> "AttributeError"]
    ELSE LET choices == DictGet(data, "choices", JNull) IN
      IF ~Truthy(choices) THEN [out |-> "skip"]
      ELSE IF choices.t = "num" THEN [out |-> "raise", exc |-> "TypeError"]
      ELSE IF choices.t = "obj" THEN [out |-> "raise", exc |-> "KeyError"]
      ELSE IF choices.t = "str" THEN [out |-> "raise", exc |-> "AttributeError"]
      ELSE LET first == choices.items[1] IN
        IF first.t # "obj" THEN [out |-> "raise", exc |-> "AttributeError"]
        ELSE LET delta == DictGet(first, "delta", JObj(EmptyDict)) IN
          IF delta.t # "obj" THEN [out |-> "raise", exc |-> "AttributeError"]
          ELSE LET content == DictGet(delta, "content", JStr("")) IN
            IF Truthy(content) THEN [out |-> "yield", content |-> content]
            ELSE [out |-> "skip"]

\* One iteration of `async for line in response.aiter_lines()`.
ProcessLine(line) ==
    IF IsBlank(line) THEN [out |-> "skip"]
    ELSE IF StartsWithData(line) THEN
        IF IsDone(line) THEN [out |-> "break"]
        ELSE LET r == JsonLoads(line.body) IN
            IF r.ok THEN DecodeFrame(r.j) ELSE [out |-> "skip"]
    ELSE [out |-> "skip"]

\* "".join(full_content) in the finally block of _stream_response: a
\* fragment that is not a text makes it raise, "" when it succeeds.
JoinExc(full_content) ==
    IF \E i \in 1..Len(full_content) : full_content[i].t # "str"
    THEN "TypeError" ELSE ""

\* The exception the generator leaves with, "" when it returns: an exception
\* raised in the finally block takes the place of the one in flight.
AfterFinally(exc, full_content) ==
    IF JoinExc(full_content) # "" THEN JoinExc(full_content) ELSE exc

\* ------------------------------------------------------ sample stream data
DeltaFrame(content) ==
    JObj([choices |-> JList(<<JObj([delta |-> JObj([content |-> content])])>>)])

Payloads ==
    { DeltaFrame(JStr("Hel")), DeltaFrame(JStr("lo")),
      DeltaFrame(JStr("")), DeltaFrame(JNull), DeltaFrame(JNum(5)),
      JObj([choices |-> JList(<<JObj([delta |-> JObj([role |-> JStr("assistant")])])>>)]),
      JObj([choices |-> JList(<<JObj([finish_reason |-> JStr("stop")])>>)]),
      JObj([choices |-> JList(<<>>)]),
      JObj([error |-> JStr("overloaded")]),
      JList(<<JNum(1)>>),
      JNull,
      JObj([choices |-> JList(<<JStr("x")>>)]),
      JObj([choices |-> JList(<<JObj([delta |-> JNull])>>)]),
      JObj([choices |-> JStr("x")]) }

Lines ==
    { Line(FALSE, TRUE, JsonBody(j)) : j \in Payloads }
    \cup { Line(FALSE, FALSE, EmptyBody),      \* ""
           Line(TRUE, FALSE, EmptyBody),       \* "   "
           Line(FALSE, FALSE, TextBody),       \* ": keep-alive"
           Line(TRUE, TRUE, JsonBody(DeltaFrame(JStr("Hel")))),  \* " data: {...}"
           Line(FALSE, TRUE, DoneBody),        \* "data: [DONE]"
           Line(FALSE, TRUE, DoneWsBody),      \* "data: [DONE] "
           Line(FALSE, TRUE, TextBody),        \* "data: {oops"
           Line(FALSE, TRUE, EmptyBody) }      \* "data: "

SeqsUpTo(S, n) == UNION { [1..k -> S] : k \in 0..n }

\* ------------------------------------------- the generator _stream_response
VARIABLES sLines, sEnding, sPos, sYielded, sState, sExc

\* gw: the call of LLMClient in progress (check_connection, get_models or
\* chat) with the client and the request it has made
VARIABLE gw

streamVars == <<sLines, sEnding, sPos, sYielded, sState, sExc, gw>>

\* --------------------------------------------------- the store (Database)
\* connection: "none" or "open" (Database.connection)
\* conversations: ids of the rows of table conversations
\* convSeq: last id handed out by AUTOINCREMENT for conversations
\* messages: rows of table messages in rowid order
\* clock: CURRENT_TIMESTAMP, in whole seconds
VARIABLES connection, conversations, convSeq, messages, clock

\* orphans: connections opened by initialize that were never closed and
\*   that the Database no longer refers to
VARIABLE orphans

\* msgSeq: the sqlite_sequence entry of messages (AUTOINCREMENT never reuses
\*   an id, so it is the largest id ever given to a message)
\* convInfo: the columns created_at, updated_at and metadata of each row of
\*   conversations, by id
\* pending: statements executed on the connection and not yet committed
VARIABLES msgSeq, convInfo, pending

\* The other tables, each a set of rows, and sqlite_sequence, which holds
\* their AUTOINCREMENT counters.  A nullable integer column holds 0 for NULL
\* (AUTOINCREMENT ids start at 1).
VARIABLES images, vision_analyses, tool_executions, tasks, context, sqlite_sequence

repoVars == <<images, vision_analyses, tool_executions, tasks, context, sqlite_sequence>>

storeVars == <<connection, orphans, conversations, convSeq, messages, clock,
               msgSeq, convInfo, pending, repoVars>>

\* ------------------------------------------ one turn of Agent.chat (frame)
\* chat: the frame of the async generator Agent.chat
\* obs: what the caller and the store have seen of the current turn
VARIABLES chat, obs

turnVars == <<chat, obs>>

\* The scoped acquisition of the Database (async with db:) in progress:
\* pc says where the scope is, snapshot is the context table as the last
\* commit left it, which is what a connection closed with a transaction
\* still open goes back to.
VARIABLE uow

\* FluxaApp: the processing guard, the agent, the input handler suspended in
\* a mount, and the background process_chat tasks that have not finished.
VARIABLE app

\* The errored turn that ended last on a conversation no turn has run on
\* since: its conversation and its user input (NoTurn when there is none).
VARIABLE prev

hostVars == <<uow, app, prev>>

vars == <<streamVars, storeVars, turnVars, hostVars>>

\* ----------------------------------------------------------- sample inputs
UserInputs == {"Ping", "Ciao"}

NoteTexts == {"memo"}

Roles == {"user", "assistant", "system", "tool"}

ModelName == "local-model"

\* ------------------------------------------------------ Repository helpers
\* The value of a TEXT column: NULL, or a text (EmptyBody, TextBody and
\* JsonBody as for the lines of the stream).
SqlNull == [k |-> "null"]

\* MemoryManager._to_json: None is stored as NULL, anything else as the
\* text json.dumps produces.
ToJson(data) ==
    IF data.t = "null" THEN SqlNull ELSE JsonBody(data)

\* MemoryManager._from_json: NULL and "" give None, a text that is not JSON
\* gives {}, any other text gives the value it denotes.
FromJson(data) ==
    IF data.k \in {"null", "empty"} THEN JNull
    ELSE LET r == JsonLoads(data) IN
        IF r.ok THEN r.j ELSE JObj(EmptyDict)

\* metadata or {}
OrEmptyDict(metadata) ==
    IF Truthy(metadata) THEN metadata ELSE JObj(EmptyDict)

\* A field declared dict[str, Any] accepts a dict and nothing else.
ValidDict(j) == j.t = "obj"

\* cursor = await self.db.execute(...): one more statement in the open
\* transaction.
Execute(uncommitted) == uncommitted + 1

\* Variant: the operation returns without committing.
CommitSkipped(uncommitted) == uncommitted

\* await self.db.commit(): nothing is left uncommitted.
Commit(uncommitted) == 0

\* The sqlite_sequence entry of a table after a statement: the largest id
\* the table has ever held.
LargestRowid(table, sequence) ==
    IF \E i \in 1..Len(table) : table[i].id > sequence
    THEN CHOOSE n \in { table[i].id : i \in 1..Len(table) } :
            \A i \in 1..Len(table) : table[i].id <= n
    ELSE sequence

\* Variant: the connection is used without PRAGMA foreign_keys = ON, so
\* SQLite neither checks the references nor cascades a delete.
ForeignKeysOff == FALSE

\* PRAGMA foreign_keys = ON is issued by Database.initialize.
ForeignKeysOn == TRUE

\* The exception add_message raises for these arguments, "" when it succeeds.
\* Database.execute raises RuntimeError without a connection; sqlite3 rejects
\* a parameter that is not text; the foreign key rejects an unknown parent.
AddMessageExc(conversation_id, content) ==
    IF connection = "none" THEN "RuntimeError"
    ELSE IF content.t # "str" THEN "InterfaceError"
    ELSE IF ForeignKeysOn /\ conversation_id \notin conversations THEN "IntegrityError"
    ELSE ""

\* The table after the INSERT of add_message and its commit.
InsertMessage(conversation_id, role, content, model) ==
    Append(messages, [id |-> msgSeq + 1,
                      conversation_id |-> conversation_id,
                      role |-> role,
                      content |-> content.s,
                      model |-> model,
                      created_at |-> clock])

\* Rows of one conversation in the order they were inserted.
ConvRows(conversation_id) ==
    SelectSeq(messages, LAMBDA m : m.conversation_id = conversation_id)

IndexPermutations(n) ==
    { p \in [1..n -> 1..n] : \A i, j \in 1..n : i # j => p[i] # p[j] }

\* SELECT ... WHERE conversation_id = ? ORDER BY created_at ASC: every order
\* of the rows that is ascending in created_at; rows with equal created_at
\* come in an order SQL leaves to the query plan.
GetMessages(conversation_id) ==
    LET rows == ConvRows(conversation_id)
        n == Len(rows)
    IN { [i \in 1..n |-> rows[p[i]]] :
           p \in { q \in IndexPermutations(n) :
                     \A i, j \in 1..n :
                        i < j => rows[q[i]].created_at <= rows[q[j]].created_at } }

\* ------------------------------------------------------------ store actions
\* No errored turn to remember.
NoTurn == [conversation_id |-> 0, user_input |-> ""]

\* The scope before async with is entered.
IdleScope == [pc |-> "out", snapshot |-> {}]

\* FluxaApp.__init__: not processing, no agent, no conversation.
\* mounted says on_mount has run; handler is where on_input_submitted is
\* suspended ("idle" when it is not running) and input the text it took;
\* tasks are the process_chat tasks created and not finished; submitted and
\* accepted count the Input.Submitted events and those that passed the guard.
IdleApp ==
    [is_processing |-> FALSE, mounted |-> FALSE, agent |-> "none", conversation_id |-> 0,
     handler |-> "idle", input |-> "", tasks |-> <<>>, submitted |-> 0, accepted |-> 0]

\* Database.initialize: open the connection, create the schema if missing.
Initialize ==
    /\ connection = "none"
    /\ connection' = "open"
    /\ UNCHANGED <<orphans, hostVars, conversations, convSeq, messages, clock, msgSeq, convInfo, pending,
                   repoVars, turnVars, streamVars>>

\* Database.initialize on a store that holds a connection already:
\* aiosqlite.connect opens another one and self.connection is overwritten,
\* so the former connection stays open with nothing referring to it.  The
\* schema statements are CREATE ... IF NOT EXISTS.
Reinitialize ==
    /\ connection = "open"
    /\ orphans < MaxOrphans
    /\ connection' = "open"
    /\ orphans' = orphans + 1
    /\ UNCHANGED <<hostVars, conversations, convSeq, messages, clock, msgSeq, convInfo, pending,
                   repoVars, turnVars, streamVars>>

\* Database.close (FluxaApp.on_unmount may run it while a turn is suspended):
\* the connection the Database holds is closed and forgotten; without one
\* the call does nothing.  close does not commit: what was written since the
\* last commit goes with the connection.
CloseConnection ==
    /\ connection' = "none"
    /\ pending' = 0
    /\ context' = IF pending > 0 THEN uow.snapshot ELSE context
    /\ UNCHANGED <<orphans, conversations, convSeq, messages, clock, msgSeq, convInfo,
                   images, vision_analyses, tool_executions, tasks, sqlite_sequence,
                   turnVars, streamVars>>

\* Database.close called directly.
Close ==
    /\ CloseConnection
    /\ UNCHANGED hostVars

\* Variant: a call without a connection returns without doing anything.
DbExcSilent(operation) == ""

\* Database.execute, executemany, commit and rollback: the exception the
\* call raises, "" when it goes through to the connection.
DbExc(operation) ==
    IF connection = "none" THEN "RuntimeError" ELSE ""

\* One second passes.
Tick ==
    /\ clock < MaxClock
    /\ clock' = clock + 1
    /\ UNCHANGED <<connection, orphans, hostVars, conversations, convSeq, messages, msgSeq, convInfo, pending,
                   repoVars, turnVars, streamVars>>

\* MemoryManager.create_conversation: the INSERT and its commit.  The row
\* stays when building the returned Conversation fails afterwards (see
\* CreateConversationExc).
CreateConversation(metadata) ==
    /\ connection = "open"
    /\ convSeq < MaxConversations
    /\ convSeq' = convSeq + 1
    /\ conversations' = conversations \cup {convSeq + 1}
    /\ convInfo' = [c \in conversations' |->
                      IF c = convSeq + 1
                      THEN [created_at |-> clock, updated_at |-> clock,
                            metadata |-> ToJson(OrEmptyDict(metadata))]
                      ELSE convInfo[c]]
    /\ pending' = Commit(Execute(pending))
    /\ UNCHANGED <<connection, orphans, hostVars, messages, clock, msgSeq, repoVars, turnVars, streamVars>>

\* MemoryManager.add_message called directly, between turns: one INSERT
\* into messages and its commit.
AddMessage(conversation_id, role, content) ==
    /\ chat.pc = "Idle"
    /\ msgSeq < MaxMessages
    /\ AddMessageExc(conversation_id, JStr(content)) = ""
    /\ messages' = InsertMessage(conversation_id, role, JStr(content), "")
    /\ msgSeq' = LargestRowid(messages', msgSeq)
    /\ pending' = Commit(Execute(pending))
    /\ UNCHANGED <<connection, orphans, hostVars, conversations, convSeq, clock, convInfo, repoVars,
                   turnVars, streamVars>>

\* ------------------------------------------- images, analyses, tool runs
Rows(table) == { table[i] : i \in 1..Len(table) }

MessageIds == { m.id : m \in Rows(messages) }

ImageIds == { i.id : i \in images }

\* hash_str: None is stored as NULL (the empty tuple here), a text as itself.
NullHash == <<>>

Hashes == {NullHash, <<"h1">>}

\* Variant: the hash column is declared without UNIQUE.
HashNotUnique(hash_str) == FALSE

\* hash TEXT UNIQUE: a text already held by a row is refused; NULL never
\* conflicts, not even with another NULL.
HashTaken(hash_str) ==
    hash_str # NullHash /\ \E i \in images : i.hash = hash_str

\* FOREIGN KEY (...) REFERENCES ...: a non-NULL reference to a row that does
\* not exist is refused.
ForeignKeyFails(parent, ids) ==
    ForeignKeysOn /\ parent # 0 /\ parent \notin ids

\* The exception add_image raises for these arguments, "" when it succeeds.
AddImageExc(message_id, hash_str) ==
    IF connection = "none" THEN "RuntimeError"
    ELSE IF ForeignKeyFails(message_id, MessageIds) THEN "IntegrityError"
    ELSE IF HashTaken(hash_str) THEN "IntegrityError"
    ELSE ""

\* MemoryManager.add_image
AddImage(message_id, hash_str) ==
    /\ sqlite_sequence.images < MaxImages
    /\ AddImageExc(message_id, hash_str) = ""
    /\ images' = images \cup {[id |-> sqlite_sequence.images + 1,
                               message_id |-> message_id,
                               hash |-> hash_str]}
    /\ sqlite_sequence' = [sqlite_sequence EXCEPT !.images = @ + 1]
    /\ pending' = Commit(Execute(pending))
    /\ UNCHANGED <<connection, orphans, hostVars, conversations, convSeq, messages, clock, msgSeq,
                   convInfo, vision_analyses, tool_executions, tasks, context,
                   turnVars, streamVars>>

\* A REAL value, counted in tenths (Real(5) is 0.5); SqlNull is None.
Real(tenths) == [k |-> "real", tenths |-> tenths]

ConfidenceUnchecked(confidence) == TRUE

\* vision_analyses: CHECK(confidence >= 0 AND confidence <= 1); a NULL
\* passes a CHECK.
ConfidenceCheck(confidence) ==
    \/ confidence = SqlNull
    \/ confidence.tenths >= 0 /\ confidence.tenths <= 10

\* The exception add_vision_analysis raises, "" when it succeeds
\* (message_id = 0 is message_id=None).
AddVisionAnalysisExc(image_id, message_id, confidence) ==
    IF connection = "none" THEN "RuntimeError"
    ELSE IF image_id = 0 THEN "IntegrityError"
    ELSE IF ~ConfidenceCheck(confidence) THEN "IntegrityError"
    ELSE IF ForeignKeyFails(image_id, ImageIds) THEN "IntegrityError"
    ELSE IF ForeignKeyFails(message_id, MessageIds) THEN "IntegrityError"
    ELSE ""

\* MemoryManager.add_vision_analysis
AddVisionAnalysis(image_id, message_id, confidence) ==
    /\ sqlite_sequence.vision_analyses < MaxAnalyses
    /\ AddVisionAnalysisExc(image_id, message_id, confidence) = ""
    /\ vision_analyses' = vision_analyses \cup
          {[id |-> sqlite_sequence.vision_analyses + 1,
            image_id |-> image_id,
            message_id |-> message_id,
            confidence |-> confidence]}
    /\ sqlite_sequence' = [sqlite_sequence EXCEPT !.vision_analyses = @ + 1]
    /\ pending' = Commit(Execute(pending))
    /\ UNCHANGED <<connection, orphans, hostVars, conversations, convSeq, messages, clock, msgSeq,
                   convInfo, images, tool_executions, tasks, context,
                   turnVars, streamVars>>

\* The exception of INSERT INTO tool_executions, "" when it succeeds.
AddToolExecutionExc(message_id) ==
    IF connection = "none" THEN "RuntimeError"
    ELSE IF ForeignKeyFails(message_id, MessageIds) THEN "IntegrityError"
    ELSE ""

\* A tool execution is recorded through Database.execute and
\* Database.commit (the repository has no method for it).
AddToolExecution(message_id) ==
    /\ sqlite_sequence.tool_executions < MaxToolExecutions
    /\ AddToolExecutionExc(message_id) = ""
    /\ tool_executions' = tool_executions \cup
          {[id |-> sqlite_sequence.tool_executions + 1,
            message_id |-> message_id]}
    /\ sqlite_sequence' = [sqlite_sequence EXCEPT !.tool_executions = @ + 1]
    /\ pending' = Commit(Execute(pending))
    /\ UNCHANGED <<connection, orphans, hostVars, conversations, convSeq, messages, clock, msgSeq,
                   convInfo, images, vision_analyses, tasks, context,
                   turnVars, streamVars>>

\* ---------------------------------------------------- delete_conversation
\* messages.conversation_id ... ON DELETE CASCADE
CascadeMessages(conversation_id) ==
    IF ForeignKeysOn
    THEN { m.id : m \in { r \in Rows(messages) : r.conversation_id = conversation_id } }
    ELSE {}

\* Variant: the images of a deleted message are kept.
CascadeImagesNone(message_ids) == {}

\* images.message_id ... ON DELETE CASCADE
CascadeImages(message_ids) ==
    { i \in images : i.message_id \in message_ids }

\* tool_executions.message_id ... ON DELETE CASCADE
CascadeToolExecutions(message_ids) ==
    { t \in tool_executions : t.message_id \in message_ids }

\* vision_analyses.image_id and vision_analyses.message_id, both
\* ON DELETE CASCADE
CascadeAnalyses(message_ids, image_ids) ==
    { a \in vision_analyses :
        a.image_id \in image_ids \/ a.message_id \in message_ids }

\* cursor.rowcount of DELETE FROM conversations WHERE id = ?: the rows of
\* conversations the statement removed.
Rowcount(conversation_id) ==
    Cardinality({ c \in conversations : c = conversation_id })

\* Variant: return cursor.rowcount >= 0
DeleteConversationReturnsAlways(conversation_id) == Rowcount(conversation_id) >= 0

\* return cursor.rowcount > 0
DeleteConversationReturns(conversation_id) == Rowcount(conversation_id) > 0

\* MemoryManager.delete_conversation: the DELETE with its cascades, and the
\* commit.
DeleteConversation(conversation_id) ==
    /\ connection = "open"
    /\ LET goneMessages == CascadeMessages(conversation_id)
           goneImages == CascadeImages(goneMessages)
       IN /\ conversations' = conversations \ {conversation_id}
          /\ convInfo' = [c \in conversations' |-> convInfo[c]]
          /\ messages' = SelectSeq(messages, LAMBDA m : m.id \notin goneMessages)
          /\ images' = images \ goneImages
          /\ tool_executions' = tool_executions \ CascadeToolExecutions(goneMessages)
          /\ vision_analyses' = vision_analyses \
                CascadeAnalyses(goneMessages, { i.id : i \in goneImages })
    /\ pending' = Commit(Execute(pending))
    /\ UNCHANGED <<connection, orphans, hostVars, convSeq, clock, msgSeq, tasks, context,
                   sqlite_sequence, turnVars, streamVars>>

\* --------------------------------------------------- reading conversations
\* MemoryManager.get_conversation: None without a row, the Conversation built
\* from the row, or the error of building it.
GetConversation(conversation_id) ==
    IF conversation_id \notin conversations THEN [out |-> "none"]
    ELSE LET metadata == FromJson(convInfo[conversation_id].metadata) IN
        IF ValidDict(metadata)
        THEN [out |-> "row", id |-> conversation_id, metadata |-> metadata]
        ELSE [out |-> "raise", exc |-> "ValidationError"]

\* The exception create_conversation raises, "" when it returns: the
\* Conversation is built from `metadata or {}` after the commit.
CreateConversationExc(metadata) ==
    IF connection = "none" THEN "RuntimeError"
    ELSE IF ~ValidDict(OrEmptyDict(metadata)) THEN "ValidationError"
    ELSE ""

\* Variant: ORDER BY updated_at ASC.
OrderedAscending(order) ==
    \A i, j \in 1..Len(order) :
        i < j => convInfo[order[i]].updated_at <= convInfo[order[j]].updated_at

\* ORDER BY updated_at DESC
OrderedByUpdatedAtDesc(order) ==
    \A i, j \in 1..Len(order) :
        i < j => convInfo[order[i]].updated_at >= convInfo[order[j]].updated_at

\* The orders in which SELECT * FROM conversations ORDER BY updated_at DESC
\* may deliver the rows (rows with equal updated_at in any order).
ConversationOrders ==
    LET n == Cardinality(conversations) IN
    { order \in [1..n -> conversations] :
        /\ \A i, j \in 1..n : i # j => order[i] # order[j]
        /\ OrderedByUpdatedAtDesc(order) }

\* LIMIT ? OFFSET ?
LimitOffset(order, limit, offset) ==
    IF offset >= Len(order) \/ limit = 0 THEN <<>>
    ELSE SubSeq(order, offset + 1,
                IF offset + limit < Len(order) THEN offset + limit ELSE Len(order))

\* MemoryManager.list_conversations: the outcomes the call can have, the ids
\* of the Conversations returned or the error of building one of them.
ListConversations(limit, offset) ==
    { IF \E i \in 1..Len(page) : GetConversation(page[i]).out = "raise"
      THEN [out |-> "raise", exc |-> "ValidationError"]
      ELSE [out |-> "rows", rows |-> page] :
        page \in { LimitOffset(order, limit, offset) : order \in ConversationOrders } }

\* -------------------------------------------------------- context and tasks
ContextKeys == {"theme", "lang"}

\* INSERT ... ON CONFLICT(key) DO UPDATE SET value = excluded.value
Upsert(key, json_val) ==
    { r \in context : r.key # key } \cup {[key |-> key, value |-> json_val]}

\* The exception set_context raises, "" when it succeeds: the column is
\* declared value TEXT NOT NULL.
SetContextExc(key, value) ==
    IF connection = "none" THEN "RuntimeError"
    ELSE IF ToJson(value) = SqlNull THEN "IntegrityError"
    ELSE ""

\* MemoryManager.set_context
SetContext(key, value) ==
    /\ SetContextExc(key, value) = ""
    /\ context' = Upsert(key, ToJson(value))
    /\ pending' = Commit(Execute(pending))
    /\ UNCHANGED <<connection, orphans, hostVars, conversations, convSeq, messages, clock, msgSeq,
                   convInfo, images, vision_analyses, tool_executions, tasks,
                   sqlite_sequence, turnVars, streamVars>>

\* MemoryManager.get_context
GetContext(key) ==
    IF \E r \in context : r.key = key
    THEN FromJson((CHOOSE r \in context : r.key = key).value)
    ELSE JNull

\* Task.priority: Field(default=0, ge=0, le=10).
PriorityValid(priority) == priority >= 0 /\ priority <= 10

\* The exception create_task raises, "" when it returns: the Task is built
\* from the arguments after the INSERT and the commit.
CreateTaskExc(priority) ==
    IF connection = "none" THEN "RuntimeError"
    ELSE IF ~PriorityValid(priority) THEN "ValidationError"
    ELSE ""

\* MemoryManager.create_task: the INSERT names title, description, status
\* and priority; metadata keeps its default, NULL. The tasks table puts no
\* CHECK on priority, so the row is stored and committed before the Task
\* is built.
CreateTask(priority) ==
    /\ connection = "open"
    /\ sqlite_sequence.tasks < MaxTasks
    /\ tasks' = tasks \cup {[id |-> sqlite_sequence.tasks + 1,
                             status |-> "pending",
                             priority |-> priority,
                             metadata |-> SqlNull]}
    /\ sqlite_sequence' = [sqlite_sequence EXCEPT !.tasks = @ + 1]
    /\ pending' = Commit(Execute(pending))
    /\ UNCHANGED <<connection, orphans, hostVars, conversations, convSeq, messages, clock, msgSeq,
                   convInfo, images, vision_analyses, tool_executions, context,
                   turnVars, streamVars>>

\* The exception list_tasks raises, "" when it returns: every row is turned
\* into a Task with metadata=self._from_json(row[8]).
ListTasksExc ==
    IF connection = "none" THEN "RuntimeError"
    ELSE IF \E t \in tasks : ~ValidDict(FromJson(t.metadata)) THEN "ValidationError"
    ELSE IF \E t \in tasks : ~PriorityValid(t.priority) THEN "ValidationError"
    ELSE ""

\* ------------------------------------------------------------- Agent.chat
IdleChat ==
    [pc |-> "Idle", conversation_id |-> 0, user_input |-> "", stream |-> TRUE,
     llm_messages |-> <<>>, full_response_content |-> JStr("")]

IdleObs ==
    [before |-> 0, startLen |-> 0, emitted |-> <<>>,
     gatewayInvoked |-> FALSE, gatewayFragments |-> 0,
     userWriteExc |-> "", raised |-> ""]

SystemPrompt ==
    [role |-> "system",
     content |-> "Sei Fluxa, un assistente AI intelligente e utile. Rispondi in modo chiaro e conciso."]

\* f"\n Errore: {str(e)}"
ErrorFragment(exc) == JStr("\n Errore: " \o exc)

\* Variant: the buffer is overwritten by each chunk instead of extended.
AccumulateLast(full, chunk) == chunk

\* full_response_content += chunk
Accumulate(full, chunk) == JStr(full.s \o chunk.s)

\* Variant: the assistant message is written without testing the text.
ShouldPersistAlways(full) == TRUE

\* if full_response_content:
ShouldPersist(full) == Truthy(full)

\* Variant: the write of the user message stands inside the try block, so
\* its failure is turned into an error fragment.
StartTurnInsideTry(conversation_id, user_input, stream) ==
    /\ chat.pc = "Idle"
    /\ Len(messages) + 2 <= MaxMessages
    /\ LET exc == AddMessageExc(conversation_id, JStr(user_input))
           started == [IdleChat EXCEPT !.conversation_id = conversation_id,
                                       !.user_input = user_input,
                                       !.stream = stream]
           seen == [IdleObs EXCEPT !.before = Len(ConvRows(conversation_id)),
                                   !.startLen = Len(messages),
                                   !.userWriteExc = exc]
       IN IF exc # ""
          THEN /\ chat' = [started EXCEPT !.pc = "Errored"]
               /\ obs' = [seen EXCEPT !.emitted = Append(@, ErrorFragment(exc))]
               /\ UNCHANGED messages
          ELSE /\ chat' = [started EXCEPT !.pc = "UserPersisted"]
               /\ obs' = seen
               /\ messages' = InsertMessage(conversation_id, "user", JStr(user_input), "")
    /\ msgSeq' = LargestRowid(messages', msgSeq)
    /\ UNCHANGED <<connection, orphans, hostVars, conversations, convSeq, clock, convInfo, pending, repoVars, streamVars>>

\* Step 1: the caller starts a turn; the user message is written before
\* anything else.  A failure leaves the generator by raising to the caller.
StartTurn(conversation_id, user_input, stream) ==
    /\ chat.pc = "Idle"
    /\ Len(messages) + 2 <= MaxMessages
    /\ LET exc == AddMessageExc(conversation_id, JStr(user_input))
           started == [IdleChat EXCEPT !.conversation_id = conversation_id,
                                       !.user_input = user_input,
                                       !.stream = stream]
           seen == [IdleObs EXCEPT !.before = Len(ConvRows(conversation_id)),
                                   !.startLen = Len(messages),
                                   !.userWriteExc = exc]
       IN IF exc # ""
          THEN /\ chat' = [started EXCEPT !.pc = "Raised"]
               /\ obs' = [seen EXCEPT !.raised = exc]
               /\ UNCHANGED messages
          ELSE /\ chat' = [started EXCEPT !.pc = "UserPersisted"]
               /\ obs' = seen
               /\ messages' = InsertMessage(conversation_id, "user", JStr(user_input), "")
    /\ msgSeq' = LargestRowid(messages', msgSeq)
    /\ UNCHANGED <<connection, orphans, hostVars, conversations, convSeq, clock, convInfo, pending, repoVars, streamVars>>

\* {"role": msg.role, "content": msg.content} for msg in history
RolePairs(history) ==
    [i \in 1..Len(history) |->
        [role |-> history[i].role, content |-> history[i].content]]

\* Step 2: read the history and build the message list, system prompt first.
\* These statements stand before the try block: an error raises to the caller.
LoadHistory ==
    /\ chat.pc = "UserPersisted"
    /\ IF connection = "none"
       THEN /\ chat' = [chat EXCEPT !.pc = "Raised"]
            /\ obs' = [obs EXCEPT !.raised = "RuntimeError"]
       ELSE /\ \E history \in GetMessages(chat.conversation_id) :
                 chat' = [chat EXCEPT
                            !.pc = "ContextAssembled",
                            !.llm_messages = <<SystemPrompt>> \o RolePairs(history)]
            /\ UNCHANGED obs
    /\ UNCHANGED <<storeVars, hostVars, streamVars>>

\* value[0] and value[key] of Python on a decoded JSON value
Subscript0(j) ==
    CASE j.t = "list" -> IF Len(j.items) > 0 THEN [ok |-> TRUE, v |-> j.items[1]]
                         ELSE [ok |-> FALSE, exc |-> "IndexError"]
      [] j.t = "str"  -> IF j.s # "" THEN [ok |-> TRUE, v |-> j]   \* some 1-character string
                         ELSE [ok |-> FALSE, exc |-> "IndexError"]
      [] j.t = "obj"  -> [ok |-> FALSE, exc |-> "KeyError"]
      [] OTHER        -> [ok |-> FALSE, exc |-> "TypeError"]

SubscriptKey(j, key) ==
    IF j.t = "obj"
    THEN IF key \in DOMAIN j.fields THEN [ok |-> TRUE, v |-> j.fields[key]]
         ELSE [ok |-> FALSE, exc |-> "KeyError"]
    ELSE [ok |-> FALSE, exc |-> "TypeError"]

\* len(value) > 0 of Python, or the TypeError of a value without a length
HasLen(j) == j.t \in {"str", "list", "obj"}

\* LLMClient._unary_response from `data = response.json()` on: the content
\* it extracts for the log, the log call (which takes len(content)), and the
\* value it returns.
UnaryResponse(data) ==
    IF data.t \in {"null", "num", "bool"} THEN [ok |-> FALSE, exc |-> "TypeError"]
    ELSE IF data.t # "obj"      \* data.get("usage", {}) on a list or a text
         THEN [ok |-> FALSE, exc |-> "AttributeError"]
    ELSE IF "choices" \notin DOMAIN data.fields
         THEN [ok |-> TRUE, v |-> data]
    ELSE LET choices == data.fields["choices"] IN
      IF ~HasLen(choices) THEN [ok |-> FALSE, exc |-> "TypeError"]
      ELSE IF ~Truthy(choices) THEN [ok |-> TRUE, v |-> data]
      ELSE LET first == Subscript0(choices) IN
        IF ~first.ok THEN [ok |-> FALSE, exc |-> first.exc]
        ELSE IF first.v.t # "obj" THEN [ok |-> FALSE, exc |-> "AttributeError"]
        ELSE LET message == DictGet(first.v, "message", JObj(EmptyDict)) IN
          IF message.t # "obj" THEN [ok |-> FALSE, exc |-> "AttributeError"]
          ELSE LET content == DictGet(message, "content", JNull)
                   tool_calls == DictGet(message, "tool_calls", JNull)
               IN IF Truthy(tool_calls) /\ (~HasLen(tool_calls) \/ content.t \notin {"str", "list"})
                  THEN [ok |-> FALSE, exc |-> "TypeError"]
                  ELSE IF ~HasLen(content) THEN [ok |-> FALSE, exc |-> "TypeError"]
                  ELSE [ok |-> TRUE, v |-> data]

\* response["choices"][0]["message"]["content"]
UnaryContent(response) ==
    LET choices == SubscriptKey(response, "choices") IN
    IF ~choices.ok THEN choices
    ELSE LET first == Subscript0(choices.v) IN
      IF ~first.ok THEN first
      ELSE LET message == SubscriptKey(first.v, "message") IN
        IF ~message.ok THEN message
        ELSE SubscriptKey(message.v, "content")

UnaryMessage(message) == JObj([choices |-> JList(<<JObj([message |-> JObj(message)])>>)])

UnaryBodies ==
    { UnaryMessage([content |-> JStr("Pong")]),
      UnaryMessage([content |-> JStr("")]),
      UnaryMessage([content |-> JNull]),
      UnaryMessage([content |-> JNull, tool_calls |-> JList(<<JObj([id |-> JStr("call_1")])>>)]),
      UnaryMessage([content |-> JList(<<JStr("Pong")>>)]),
      UnaryMessage([role |-> JStr("assistant")]),
      JObj([choices |-> JList(<<>>)]),
      JObj([error |-> JStr("overloaded")]),
      JList(<<>>) }

\* What the backend answers to a unary request: a transport failure, a body
\* that is not JSON, or a JSON body.
UnaryOutcomes ==
    { [ok |-> FALSE, exc |-> e] : e \in {"NetworkError", "JSONDecodeError"} }
    \cup { [ok |-> TRUE, v |-> d] : d \in UnaryBodies }

\* Variant: the handler puts the error text into the response buffer and
\* lets the turn go on to the write of step 4.
CaughtKeepsText(c, exc) ==
    [c EXCEPT !.pc = "FragmentYielded", !.full_response_content = ErrorFragment(exc)]

\* except Exception as e: log, then yield the error fragment.
Caught(c, exc) == [c EXCEPT !.pc = "Errored"]

CaughtObs(o, exc) == [o EXCEPT !.emitted = Append(@, ErrorFragment(exc))]

\* Step 4 (agent.py 131-138): write the assistant message if there is text.
\* c and o are the frame and the observations as they stand when the gateway
\* call has completed.
Complete(c, o) ==
    IF ShouldPersist(c.full_response_content)
    THEN LET exc == AddMessageExc(c.conversation_id, c.full_response_content) IN
         IF exc # ""
         THEN /\ chat' = Caught(c, exc)
              /\ obs' = CaughtObs(o, exc)
              /\ UNCHANGED messages
         ELSE /\ chat' = [c EXCEPT !.pc = "Done"]
              /\ obs' = o
              /\ messages' = InsertMessage(c.conversation_id, "assistant",
                                           c.full_response_content, ModelName)
    ELSE /\ chat' = [c EXCEPT !.pc = "Done"]
         /\ obs' = o
         /\ UNCHANGED messages

\* Step 3, streaming: llm.chat returns the lazy fragment sequence; no request
\* has been sent yet.
InvokeGatewayStream ==
    /\ chat.pc = "ContextAssembled"
    /\ chat.stream
    /\ chat' = [chat EXCEPT !.pc = "AwaitingModel"]
    /\ obs' = [obs EXCEPT !.gatewayInvoked = TRUE]
    /\ UNCHANGED <<storeVars, hostVars, streamVars>>

\* Step 3, unary: llm.chat awaits the whole response; the agent takes the
\* content out of it and yields it once.
InvokeGatewayUnary(outcome) ==
    /\ chat.pc = "ContextAssembled"
    /\ ~chat.stream
    /\ LET invoked == [obs EXCEPT !.gatewayInvoked = TRUE]
           response == IF outcome.ok THEN UnaryResponse(outcome.v) ELSE outcome
       IN IF ~response.ok
          THEN /\ chat' = Caught(chat, response.exc)
               /\ obs' = CaughtObs(invoked, response.exc)
               /\ UNCHANGED messages
          ELSE IF response.v.t # "obj"
          THEN Complete(chat, invoked)
          ELSE LET content == UnaryContent(response.v) IN
               IF ~content.ok
               THEN /\ chat' = Caught(chat, content.exc)
                    /\ obs' = CaughtObs(invoked, content.exc)
                    /\ UNCHANGED messages
               ELSE /\ chat' = [chat EXCEPT !.pc = "FragmentYielded",
                                            !.full_response_content = content.v]
                    /\ obs' = [invoked EXCEPT
                                 !.emitted = Append(@, content.v),
                                 !.gatewayFragments =
                                     IF Truthy(content.v) THEN @ + 1 ELSE @]
                    /\ UNCHANGED messages
    /\ msgSeq' = LargestRowid(messages', msgSeq)
    /\ UNCHANGED <<connection, orphans, hostVars, conversations, convSeq, clock, convInfo, pending, repoVars, streamVars>>

\* async for chunk in generator: the gateway reads one more line.
AgentReadsLine(line) ==
    /\ chat.pc = "AwaitingModel"
    /\ LET r == ProcessLine(line) IN
       CASE r.out = "skip" -> UNCHANGED <<chat, obs, messages>>
         [] r.out = "break" -> Complete(chat, obs)
         [] r.out = "raise" ->
              /\ chat' = Caught(chat, r.exc)
              /\ obs' = CaughtObs(obs, r.exc)
              /\ UNCHANGED messages
         [] r.out = "yield" ->
              /\ obs.gatewayFragments < MaxFragments
              /\ LET got == [obs EXCEPT !.gatewayFragments = @ + 1] IN
                 IF r.content.t # "str"      \* str += non-str
                 THEN /\ chat' = Caught(chat, "TypeError")
                      /\ obs' = CaughtObs(got, "TypeError")
                      /\ UNCHANGED messages
                 ELSE /\ chat' = [chat EXCEPT
                                    !.pc = "FragmentYielded",
                                    !.full_response_content = Accumulate(@, r.content)]
                      /\ obs' = [got EXCEPT !.emitted = Append(@, r.content)]
                      /\ UNCHANGED messages
    /\ msgSeq' = LargestRowid(messages', msgSeq)
    /\ UNCHANGED <<connection, orphans, hostVars, conversations, convSeq, clock, convInfo, pending, repoVars, streamVars>>

\* The response body ends without a terminator: the fragment sequence ends.
AgentStreamEnds ==
    /\ chat.pc = "AwaitingModel"
    /\ Complete(chat, obs)
    /\ msgSeq' = LargestRowid(messages', msgSeq)
    /\ UNCHANGED <<connection, orphans, hostVars, conversations, convSeq, clock, convInfo, pending, repoVars, streamVars>>

\* The request or the body read fails: the gateway raises into the loop.
AgentStreamFails ==
    /\ chat.pc = "AwaitingModel"
    /\ chat' = Caught(chat, "NetworkError")
    /\ obs' = CaughtObs(obs, "NetworkError")
    /\ UNCHANGED <<storeVars, hostVars, streamVars>>

\* Variant: the streaming loop writes the text received so far each time the
\* caller asks for the next fragment (the write stands inside the loop).
ResumePersisting ==
    /\ chat.pc = "FragmentYielded"
    /\ IF chat.stream
       THEN /\ chat' = [chat EXCEPT !.pc = "AwaitingModel"]
            /\ UNCHANGED obs
            /\ messages' =
                  IF AddMessageExc(chat.conversation_id, chat.full_response_content) = ""
                  THEN InsertMessage(chat.conversation_id, "assistant",
                                     chat.full_response_content, ModelName)
                  ELSE messages
       ELSE Complete(chat, obs)
    /\ msgSeq' = LargestRowid(messages', msgSeq)
    /\ UNCHANGED <<connection, orphans, hostVars, conversations, convSeq, clock, convInfo, pending, repoVars, streamVars>>

\* The caller asks for the next fragment.
Resume ==
    /\ chat.pc = "FragmentYielded"
    /\ IF chat.stream
       THEN /\ chat' = [chat EXCEPT !.pc = "AwaitingModel"]
            /\ UNCHANGED <<obs, messages>>
       ELSE Complete(chat, obs)
    /\ msgSeq' = LargestRowid(messages', msgSeq)
    /\ UNCHANGED <<connection, orphans, hostVars, conversations, convSeq, clock, convInfo, pending, repoVars, streamVars>>

\* Variant: the text received so far is written when the generator is closed
\* (the write stands in a finally block).
AbandonPersisting ==
    /\ chat.pc \in {"FragmentYielded", "AwaitingModel"}
    /\ chat' = [chat EXCEPT !.pc = "Abandoned"]
    /\ messages' =
          IF AddMessageExc(chat.conversation_id, chat.full_response_content) = ""
          THEN InsertMessage(chat.conversation_id, "assistant",
                             chat.full_response_content, ModelName)
          ELSE messages
    /\ msgSeq' = LargestRowid(messages', msgSeq)
    /\ UNCHANGED <<obs, connection, orphans, hostVars, conversations, convSeq, clock, convInfo, pending, repoVars, streamVars>>

\* The caller closes the generator while it is suspended at a yield, or its
\* task is cancelled while the next frame is awaited: GeneratorExit and
\* CancelledError are not Exceptions, so nothing in chat handles them.
Abandon ==
    /\ chat.pc \in {"FragmentYielded", "AwaitingModel"}
    /\ chat' = [chat EXCEPT !.pc = "Abandoned"]
    /\ UNCHANGED <<obs, storeVars, hostVars, streamVars>>

\* The caller is done with the generator; the next turn may start.
EndTurn ==
    /\ chat.pc \in {"Done", "Errored", "Raised", "Abandoned"}
    /\ chat' = IdleChat
    /\ obs' = IdleObs
    /\ UNCHANGED <<storeVars, hostVars, streamVars>>

\* -------------------------------------------------------------- LLMClient
\* LMStudioSettings as the client reads it: model_name, temperature (in
\* tenths), max_tokens and stream.
DefaultConfig ==
    [model_name |-> JStr(""), temperature |-> JNum(7),
     max_tokens |-> JNum(2048), stream |-> JBool(TRUE)]

Configs ==
    { [DefaultConfig EXCEPT !.model_name = m, !.stream = s] :
        m \in {JStr(""), JStr("cfg-model")}, s \in {JBool(TRUE), JBool(FALSE)} }

\* No call in progress.  client is the httpx.AsyncClient of the call
\* ("none", "open" from its construction, "closed" once aclose has run),
\* requests the number of requests sent to the backend.
IdleGateway(config) ==
    [op |-> "idle", config |-> config, pc |-> "idle", client |-> "none",
     requests |-> 0]

\* What the backend does with GET /models: the transport fails, or it
\* answers with a status and a body.
ProbeStatuses == {200, 204, 301, 404, 500}

ModelEntry(id) == JObj([id |-> id])

ModelListings ==
    { JObj([data |-> JList(<<ModelEntry(JStr("m1")), ModelEntry(JStr("m2"))>>)]),
      JObj([data |-> JList(<<ModelEntry(JStr("m2")), ModelEntry(JStr("m1"))>>)]),
      JObj([data |-> JList(<<ModelEntry(JStr("m1"))>>), object |-> JStr("list")]),
      JObj([data |-> JList(<<>>)]),
      JObj(EmptyDict),
      JObj([data |-> JNull]),
      JObj([data |-> JStr("m1")]),
      JObj([data |-> JStr("")]),
      JObj([data |-> ModelEntry(JStr("m1"))]),
      JObj([data |-> JList(<<ModelEntry(JStr("m1")), JStr("m2")>>)]),
      JObj([data |-> JList(<<ModelEntry(JStr("m1")), JObj([name |-> JStr("m2")])>>)]),
      JObj([models |-> JList(<<ModelEntry(JStr("m1"))>>)]),
      JList(<<ModelEntry(JStr("m1"))>>),
      JNull }

ProbeBodies == {EmptyBody, TextBody} \cup { JsonBody(j) : j \in ModelListings }

ProbeOutcomes ==
    { [kind |-> "error", exc |-> e] :
        e \in {"ConnectError", "ConnectTimeout", "ReadError"} }
    \cup { [kind |-> "response", status |-> st, body |-> b] :
             st \in ProbeStatuses, b \in ProbeBodies }

\* Response.raise_for_status raises unless the status is 2xx.
IsSuccess(status) == status >= 200 /\ status <= 299

\* Variant: any 2xx status counts as connected.
CheckConnectionSuccess(outcome) ==
    IF outcome.kind = "response"
    THEN [ok |-> TRUE, v |-> IsSuccess(outcome.status)]
    ELSE [ok |-> TRUE, v |-> FALSE]

\* LLMClient.check_connection: what the call returns (ok) or raises.
CheckConnection(outcome) ==
    IF outcome.kind = "response"
    THEN [ok |-> TRUE, v |-> outcome.status = 200]
    ELSE [ok |-> TRUE, v |-> FALSE]      \* except Exception: return False

\* [model["id"] for model in data.get("data", [])]
ModelIds(data) ==
    IF data.t # "obj" THEN [ok |-> FALSE, exc |-> "AttributeError"]
    ELSE LET listed == DictGet(data, "data", JList(<<>>)) IN
      CASE listed.t = "list" ->
             IF \E i \in 1..Len(listed.items) : listed.items[i].t # "obj"
             THEN [ok |-> FALSE, exc |-> "TypeError"]
             ELSE IF \E i \in 1..Len(listed.items) :
                        "id" \notin DOMAIN listed.items[i].fields
             THEN [ok |-> FALSE, exc |-> "KeyError"]
             ELSE [ok |-> TRUE,
                   v |-> [i \in 1..Len(listed.items) |-> listed.items[i].fields["id"]]]
        [] listed.t \in {"str", "obj"} ->       \* iterates characters or keys
             IF Truthy(listed) THEN [ok |-> FALSE, exc |-> "TypeError"]
             ELSE [ok |-> TRUE, v |-> <<>>]
        [] OTHER -> [ok |-> FALSE, exc |-> "TypeError"]

\* The try block of get_models.
ListModels(outcome) ==
    IF outcome.kind # "response" THEN [ok |-> FALSE, exc |-> outcome.exc]
    ELSE IF ~IsSuccess(outcome.status) THEN [ok |-> FALSE, exc |-> "HTTPStatusError"]
    ELSE LET r == JsonLoads(outcome.body) IN
      IF ~r.ok THEN [ok |-> FALSE, exc |-> "JSONDecodeError"]
      ELSE ModelIds(r.j)

\* Variant: the failure of the try block reaches the caller.
GetModelsUncaught(outcome) == ListModels(outcome)

\* LLMClient.get_models: except Exception: return []
GetModels(outcome) ==
    IF ListModels(outcome).ok THEN ListModels(outcome)
    ELSE [ok |-> TRUE, v |-> <<>>]

\* A caller awaits check_connection.
CallCheckConnection(outcome) ==
    /\ gw.op = "idle"
    /\ gw' = [op |-> "check_connection", config |-> gw.config,
              pc |-> "returned", client |-> "closed", requests |-> 1,
              outcome |-> outcome, result |-> CheckConnection(outcome)]
    /\ UNCHANGED <<sLines, sEnding, sPos, sYielded, sState, sExc, storeVars, hostVars, turnVars>>

\* A caller awaits get_models.
CallGetModels(outcome) ==
    /\ gw.op = "idle"
    /\ gw' = [op |-> "get_models", config |-> gw.config,
              pc |-> "returned", client |-> "closed", requests |-> 1,
              outcome |-> outcome, result |-> GetModels(outcome)]
    /\ UNCHANGED <<sLines, sEnding, sPos, sYielded, sState, sExc, storeVars, hostVars, turnVars>>

\* ---------------------------------------------------------- LLMClient.chat
\* The arguments of chat; JNull is an argument left out (None).
ChatArgs(llm_messages, model, temperature, max_tokens, stream, tools) ==
    [messages |-> llm_messages, model |-> model, temperature |-> temperature,
     max_tokens |-> max_tokens, stream |-> stream, tools |-> tools]

ChatMessage(content) == JObj([role |-> JStr("user"), content |-> content])

\* Variant: value or default, which replaces 0 and False as well.
OrDefault(value, default) == IF Truthy(value) THEN value ELSE default

\* value if value is not None else default
IfNotNone(value, default) == IF value # JNull THEN value ELSE default

\* model = model or self.config.model_name; if not model: "local-model"
ModelOrDefault(model, config) ==
    LET chosen == IF Truthy(model) THEN model ELSE config.model_name
    IN IF Truthy(chosen) THEN chosen ELSE JStr("local-model")

\* The payload of client.py 77-87.
BuildPayload(args, config) ==
    LET model == ModelOrDefault(args.model, config)
        temperature == IfNotNone(args.temperature, config.temperature)
        max_tokens == IfNotNone(args.max_tokens, config.max_tokens)
        stream == IfNotNone(args.stream, config.stream)
    IN IF Truthy(args.tools)
       THEN [model |-> model, messages |-> args.messages,
             temperature |-> temperature, max_tokens |-> max_tokens,
             stream |-> stream, tools |-> args.tools,
             tool_choice |-> JStr("auto")]
       ELSE [model |-> model, messages |-> args.messages,
             temperature |-> temperature, max_tokens |-> max_tokens,
             stream |-> stream]

\* The request log of client.py 90-99: content is messages[-1]["content"],
\* or "No content" for an empty list, and log_llm_interaction takes
\* len(content).  The exception it raises, "" when it returns.
RequestLogExc(llm_messages) ==
    IF ~Truthy(llm_messages) THEN ""
    ELSE LET last == llm_messages.items[Len(llm_messages.items)] IN
      IF last.t # "obj" THEN "TypeError"
      ELSE IF "content" \notin DOMAIN last.fields THEN "KeyError"
      ELSE IF ~HasLen(last.fields["content"]) THEN "TypeError"
      ELSE ""

\* LLMClient._unary_response with the log_llm_interaction call taken out:
\* the statements that prepare the content (client.py 126-131) stay.
UnaryResponseNoLog(data) ==
    IF data.t \in {"null", "num", "bool"} THEN [ok |-> FALSE, exc |-> "TypeError"]
    ELSE IF data.t # "obj" \/ "choices" \notin DOMAIN data.fields
         THEN [ok |-> TRUE, v |-> data]
    ELSE LET choices == data.fields["choices"] IN
      IF ~HasLen(choices) THEN [ok |-> FALSE, exc |-> "TypeError"]
      ELSE IF ~Truthy(choices) THEN [ok |-> TRUE, v |-> data]
      ELSE LET first == Subscript0(choices) IN
        IF ~first.ok THEN [ok |-> FALSE, exc |-> first.exc]
        ELSE IF first.v.t # "obj" THEN [ok |-> FALSE, exc |-> "AttributeError"]
        ELSE LET message == DictGet(first.v, "message", JObj(EmptyDict)) IN
          IF message.t # "obj" THEN [ok |-> FALSE, exc |-> "AttributeError"]
          ELSE LET content == DictGet(message, "content", JNull)
                   tool_calls == DictGet(message, "tool_calls", JNull)
               IN IF Truthy(tool_calls) /\ (~HasLen(tool_calls) \/ content.t \notin {"str", "list"})
                  THEN [ok |-> FALSE, exc |-> "TypeError"]
                  ELSE [ok |-> TRUE, v |-> data]

\* What the backend does with a unary POST /chat/completions.
ChatOutcomes ==
    UnaryOutcomes \cup {[ok |-> FALSE, exc |-> "HTTPStatusError"]}

NoOutcome == [ok |-> FALSE, exc |-> ""]

\* Variant: a failed request is sent once more.
PostRetrying(requests) == requests + 2

\* client.post / client.stream: one request, with no loop around it.
Post(requests) == requests + 1

\* LLMClient.chat.  In unary mode the whole exchange happens within the
\* call; in streaming mode the call builds the client and returns the
\* generator, whose body has not started.
Chat(args, outcome) ==
    /\ gw.op = "idle"
    /\ LET payload == BuildPayload(args, gw.config)
           call == [op |-> "chat", config |-> gw.config, pc |-> "raised",
                    client |-> "none", requests |-> 0,
                    args |-> args, payload |-> payload, outcome |-> NoOutcome,
                    yielded |-> <<>>, inflight |-> "",
                    result |-> [ok |-> FALSE, exc |-> RequestLogExc(args.messages)]]
       IN IF RequestLogExc(args.messages) # ""
          THEN gw' = call
          ELSE IF Truthy(payload.stream)
          THEN gw' = [call EXCEPT !.pc = "generator", !.client = "open",
                                  !.result = [ok |-> TRUE, v |-> JStr("generator")]]
          ELSE LET response == IF outcome.ok THEN UnaryResponse(outcome.v) ELSE outcome
               IN gw' = [call EXCEPT !.pc = IF response.ok THEN "returned" ELSE "raised",
                                     !.client = "closed",
                                     !.requests = Post(@),
                                     !.outcome = outcome,
                                     !.inflight = IF outcome.ok THEN "" ELSE outcome.exc,
                                     !.result = response]
    /\ UNCHANGED <<sLines, sEnding, sPos, sYielded, sState, sExc, storeVars, hostVars, turnVars>>

\* The generator leaves its body with exc in flight ("" for a return): the
\* finally block logs "".join(full_content) and then closes the client, so
\* that a log that raises leaves the client open.
Finish(g, exc, pc) ==
    LET left == AfterFinally(exc, g.yielded) IN
    [g EXCEPT !.pc = IF left = "" THEN pc ELSE "raised",
              !.client = IF JoinExc(g.yielded) = "" THEN "closed" ELSE "open",
              !.inflight = exc,
              !.result = IF left = "" THEN [ok |-> TRUE, v |-> JStr("generator")]
                         ELSE [ok |-> FALSE, exc |-> left]]

\* The caller asks for the next fragment; the first time, the body starts
\* and client.stream sends the request.
GwPull ==
    /\ gw.op = "chat"
    /\ gw.pc \in {"generator", "suspended"}
    /\ gw' = [gw EXCEPT !.pc = "reading",
                        !.requests = IF gw.pc = "generator" THEN Post(@) ELSE @]
    /\ UNCHANGED <<sLines, sEnding, sPos, sYielded, sState, sExc, storeVars, hostVars, turnVars>>

\* aiter_lines delivers one more line.
GwReadLine(line) ==
    /\ gw.op = "chat"
    /\ gw.pc = "reading"
    /\ LET r == ProcessLine(line) IN
       CASE r.out = "skip" -> UNCHANGED gw
         [] r.out = "break" -> gw' = Finish(gw, "", "ended")
         [] r.out = "raise" -> gw' = Finish(gw, r.exc, "raised")
         [] r.out = "yield" ->
              /\ Len(gw.yielded) < MaxFragments
              /\ gw' = [gw EXCEPT !.pc = "suspended",
                                  !.yielded = Append(@, r.content)]
    /\ UNCHANGED <<sLines, sEnding, sPos, sYielded, sState, sExc, storeVars, hostVars, turnVars>>

\* The body ends without a terminator frame.
GwBodyEnds ==
    /\ gw.op = "chat"
    /\ gw.pc = "reading"
    /\ gw' = Finish(gw, "", "ended")
    /\ UNCHANGED <<sLines, sEnding, sPos, sYielded, sState, sExc, storeVars, hostVars, turnVars>>

\* The connection, the status check or the read of the body fails, or the
\* task of the caller is cancelled while the next line is awaited.
GwBodyFails(exc) ==
    /\ gw.op = "chat"
    /\ gw.pc = "reading"
    /\ gw' = Finish(gw, exc, "raised")
    /\ UNCHANGED <<sLines, sEnding, sPos, sYielded, sState, sExc, storeVars, hostVars, turnVars>>

\* The caller lets go of the generator without reading it to its end.
GwDrop ==
    /\ gw.op = "chat"
    /\ gw.pc \in {"generator", "suspended"}
    /\ gw' = [gw EXCEPT !.pc = IF gw.pc = "generator" THEN "dropped_unstarted"
                               ELSE "dropped_suspended"]
    /\ UNCHANGED <<sLines, sEnding, sPos, sYielded, sState, sExc, storeVars, hostVars, turnVars>>

\* The event loop finalizes the dropped generator with aclose(): a suspended
\* body gets GeneratorExit at its yield and runs its finally block; a body
\* that never started has nothing to run.
GwFinalize ==
    /\ gw.op = "chat"
    /\ gw.pc \in {"dropped_unstarted", "dropped_suspended"}
    /\ gw' = IF gw.pc = "dropped_suspended"
             THEN [Finish(gw, "GeneratorExit", "closed") EXCEPT !.pc = "closed"]
             ELSE [gw EXCEPT !.pc = "closed"]
    /\ UNCHANGED <<sLines, sEnding, sPos, sYielded, sState, sExc, storeVars, hostVars, turnVars>>

\* The caller is done with the call; the client may make the next one.
GwReset ==
    /\ gw.pc \in {"returned", "raised", "ended", "closed"}
    /\ gw' = IdleGateway(gw.config)
    /\ UNCHANGED <<sLines, sEnding, sPos, sYielded, sState, sExc, storeVars, hostVars, turnVars>>

\* ------------------------------------------------------------ specification
InitStore ==
    /\ connection = "none"
    /\ orphans = 0
    /\ conversations = {}
    /\ convSeq = 0
    /\ messages = <<>>
    /\ clock = 0
    /\ msgSeq = 0
    /\ convInfo = [c \in {} |-> 0]
    /\ pending = 0
    /\ images = {}
    /\ vision_analyses = {}
    /\ tool_executions = {}
    /\ tasks = {}
    /\ context = {}
    /\ sqlite_sequence = [images |-> 0, vision_analyses |-> 0,
                          tool_executions |-> 0, tasks |-> 0]

InitTurn ==
    /\ chat = IdleChat
    /\ obs = IdleObs

\* No scope entered; FluxaApp.__init__.
InitHost ==
    /\ uow = IdleScope
    /\ app = IdleApp
    /\ prev = NoTurn

Init ==
    /\ InitStore
    /\ InitTurn
    /\ InitHost
    /\ sLines = <<>>
    /\ sEnding = "eof"
    /\ sPos = 0
    /\ sYielded = <<>>
    /\ sState = "ended"
    /\ sExc = ""
    /\ gw = IdleGateway(DefaultConfig)

Next ==
    \/ Initialize
    \/ Close
    \/ Tick
    \/ CreateConversation(JNull)
    \/ \E c \in 1..MaxConversations, role \in Roles, content \in NoteTexts :
          AddMessage(c, role, content)
    \/ \E c \in 1..MaxConversations, input \in UserInputs, stream \in BOOLEAN :
          StartTurn(c, input, stream)
    \/ LoadHistory
    \/ InvokeGatewayStream
    \/ \E outcome \in UnaryOutcomes : InvokeGatewayUnary(outcome)
    \/ AgentStreamEnds
    \/ AgentStreamFails
    \/ \E line \in Lines : AgentReadsLine(line)
    \/ Resume
    \/ Abandon
    \/ EndTurn

Spec == Init /\ [][Next]_vars

\* The response body (the lines aiter_lines will deliver) and how the
\* transport ends after the last line: cleanly or with a network failure.
InitStream ==
    /\ sLines \in SeqsUpTo(Lines, MaxFrames)
    /\ sEnding \in {"eof", "error"}
    /\ sPos = 0
    /\ sYielded = <<>>
    /\ sState = "running"
    /\ sExc = ""
    /\ gw = IdleGateway(DefaultConfig)
    /\ InitStore
    /\ InitTurn
    /\ InitHost

\* The generator consumes the next line of the body.
StreamReadLine ==
    /\ sState = "running"
    /\ sPos < Len(sLines)
    /\ LET r == ProcessLine(sLines[sPos + 1])
           left == CASE r.out = "break" -> AfterFinally("", sYielded)
                     [] r.out = "raise" -> AfterFinally(r.exc, sYielded)
                     [] OTHER -> ""
       IN
        /\ sPos' = sPos + 1
        /\ sYielded' = IF r.out = "yield" THEN Append(sYielded, r.content) ELSE sYielded
        /\ sState' = CASE left # "" -> "raised"
                       [] r.out = "break" -> "ended"
                       [] OTHER -> "running"
        /\ sExc' = IF left # "" THEN left ELSE sExc
    /\ UNCHANGED <<sLines, sEnding, gw, storeVars, hostVars, turnVars>>

\* aiter_lines is exhausted: the loop ends and the generator returns.
StreamExhausted ==
    /\ sState = "running"
    /\ sPos = Len(sLines)
    /\ sEnding = "eof"
    /\ sState' = IF AfterFinally("", sYielded) = "" THEN "ended" ELSE "raised"
    /\ sExc' = AfterFinally("", sYielded)
    /\ UNCHANGED <<sLines, sEnding, sPos, sYielded, gw, storeVars, hostVars, turnVars>>

\* The transport fails while the next line is awaited: logged and re-raised.
StreamNetworkError ==
    /\ sState = "running"
    /\ sPos = Len(sLines)
    /\ sEnding = "error"
    /\ sState' = "raised"
    /\ sExc' = AfterFinally("NetworkError", sYielded)
    /\ UNCHANGED <<sLines, sEnding, sPos, sYielded, gw, storeVars, hostVars, turnVars>>

NextStream == StreamReadLine \/ StreamExhausted \/ StreamNetworkError

SpecStream == InitStream /\ [][NextStream]_vars

\* ------------------------------------------ the repository on its own
\* The calls a client makes on the repository between turns: conversations
\* with their messages, images, analyses and tool runs.
NextRepo ==
    \/ Initialize
    \/ CreateConversation(JNull)
    \/ \E c \in 1..MaxConversations : AddMessage(c, "user", "memo")
    \/ \E m \in 1..MaxMessages, h \in Hashes : AddImage(m, h)
    \/ \E i \in 1..MaxImages, m \in 0..MaxMessages : AddVisionAnalysis(i, m, SqlNull)
    \/ \E m \in 0..MaxMessages : AddToolExecution(m)
    \/ \E c \in 1..MaxConversations : DeleteConversation(c)

SpecRepo == Init /\ [][NextRepo]_vars

\* Conversations and their messages as time passes: what the listing of
\* recent conversations depends on.
NextRecent ==
    \/ Initialize
    \/ Tick
    \/ CreateConversation(JNull)
    \/ \E c \in 1..MaxConversations : AddMessage(c, "user", "memo")
    \/ \E c \in 1..MaxConversations : DeleteConversation(c)

SpecRecent == Init /\ [][NextRecent]_vars

\* Every write operation of the repository, each with one sample argument.
NextWrites ==
    \/ Initialize
    \/ CreateConversation(JNull)
    \/ \E c \in 1..MaxConversations : AddMessage(c, "user", "memo")
    \/ \E m \in 1..MaxMessages : AddImage(m, NullHash)
    \/ \E i \in 1..MaxImages : AddVisionAnalysis(i, 0, SqlNull)
    \/ \E c \in 1..MaxConversations : DeleteConversation(c)
    \/ SetContext("theme", JNum(0))
    \/ CreateTask(0)

SpecWrites == Init /\ [][NextWrites]_vars

\* The JSON columns: conversations created with metadata, the context
\* key-value store and the tasks.
MetadataInputs ==
    { JNull, JObj(EmptyDict), JObj([tags |-> JList(<<JStr("vision")>>)]),
      JList(<<JNum(1)>>) }

ContextValues ==
    { JNull, JNum(0), JStr(""), JList(<<>>), JObj(EmptyDict),
      JObj([langs |-> JList(<<JStr("it"), JNull>>)]) }

Priorities == {0, 5, 11}

NextJson ==
    \/ Initialize
    \/ \E priority \in Priorities : CreateTask(priority)
    \/ \E key \in ContextKeys, value \in ContextValues : SetContext(key, value)
    \/ \E metadata \in MetadataInputs : CreateConversation(metadata)

SpecJson == Init /\ [][NextJson]_vars

\* --------------------------------------------------- claims on the turn
\* Rows written since the current turn started (nothing but the turn writes
\* while a turn is in flight).
TurnRows == SubSeq(messages, obs.startLen + 1, Len(messages))

AssistantRows == SelectSeq(TurnRows, LAMBDA m : m.role = "assistant")

\* Fragments handed to the caller, without the error fragment of the handler.
EmittedChunks ==
    IF chat.pc = "Errored" THEN SubSeq(obs.emitted, 1, Len(obs.emitted) - 1)
    ELSE obs.emitted

RECURSIVE Concat(_)
Concat(fragments) ==
    IF fragments = <<>> THEN ""
    ELSE (IF Head(fragments).t = "str" THEN Head(fragments).s ELSE "<non-text>")
         \o Concat(Tail(fragments))

UserRow(m) ==
    /\ m.role = "user"
    /\ m.content = chat.user_input
    /\ m.conversation_id = chat.conversation_id

\* C1: a finished turn whose gateway call produced no text (zero fragments,
\* empty text, or an error before any fragment) leaves the conversation with
\* exactly one message more than before, the user message.
C1_EmptyTurnAddsOnlyUserMessage ==
    (chat.pc \in {"Done", "Errored"} /\ obs.gatewayInvoked /\ obs.gatewayFragments = 0)
        => Len(ConvRows(chat.conversation_id)) = obs.before + 1

C1_Witness ==
    /\ chat.pc \in {"Done", "Errored"}
    /\ obs.gatewayInvoked
    /\ obs.gatewayFragments = 0
    /\ obs.before >= 1
    /\ Len(ConvRows(chat.conversation_id)) = obs.before + 1

\* C2: a turn writes at most one assistant message, and none while the
\* accumulated response text is empty.
C2_AtMostOneAssistantMessage ==
    (chat.pc # "Idle") =>
        /\ Len(AssistantRows) <= 1
        /\ ~Truthy(chat.full_response_content) => Len(AssistantRows) = 0

C2_Witness ==
    /\ chat.pc = "Done"
    /\ ~Truthy(chat.full_response_content)
    /\ obs.gatewayInvoked
    /\ Len(AssistantRows) = 0
    /\ Len(TurnRows) = 1

\* C3: a turn that ends in Done with non-empty text has written exactly one
\* assistant message, the last row of the conversation, whose content is the
\* concatenation, in order, of the fragments the caller received.
C3_StoredContentIsConcatenation ==
    (chat.pc = "Done" /\ Truthy(chat.full_response_content)) =>
        /\ Len(AssistantRows) = 1
        /\ AssistantRows[1] = messages[Len(messages)]
        /\ AssistantRows[1].conversation_id = chat.conversation_id
        /\ AssistantRows[1].content = Concat(obs.emitted)

C3_Witness ==
    /\ chat.pc = "Done"
    /\ chat.stream
    /\ obs.emitted = <<JStr("Hel"), JStr("lo")>>
    /\ messages[Len(messages)].role = "assistant"
    /\ messages[Len(messages)].content = "Hello"

\* C4: get_messages returns the messages of a conversation in the order they
\* were inserted, also when several were inserted in the same second.
C4_GetMessagesInsertionOrder ==
    \A c \in 1..MaxConversations :
        \A history \in GetMessages(c) : history = ConvRows(c)

\* C5: no exception of steps 2-5 leaves Agent.chat; the only exception the
\* caller can see is that of writing the user message (step 1).
C5_OnlyStepOneRaises ==
    chat.pc = "Raised" => obs.userWriteExc # ""

\* C6: a streaming turn that failed or was abandoned after the caller got at
\* least one fragment has written no assistant message, and the user message
\* of step 1 is still stored.
C6_NoPartialAssistantMessage ==
    (chat.stream /\ chat.pc \in {"Errored", "Abandoned"} /\ Len(EmittedChunks) >= 1) =>
        /\ Len(AssistantRows) = 0
        /\ Len(TurnRows) = 1
        /\ UserRow(TurnRows[1])

C6_Witness ==
    /\ chat.stream
    /\ chat.pc = "Abandoned"
    /\ obs.emitted = <<JStr("Hel")>>
    /\ Len(TurnRows) = 1
    /\ UserRow(TurnRows[1])

\* C7: when writing the user message fails, the error leaves Agent.chat, the
\* gateway is not invoked, nothing is emitted and no row is added.
C7_UserWriteFailureIsFatal ==
    (chat.pc # "Idle" /\ obs.userWriteExc # "") =>
        /\ chat.pc = "Raised"
        /\ obs.raised = obs.userWriteExc
        /\ ~obs.gatewayInvoked
        /\ obs.emitted = <<>>
        /\ TurnRows = <<>>

C7_Witness ==
    /\ chat.pc = "Raised"
    /\ obs.userWriteExc = "IntegrityError"
    /\ chat.conversation_id \notin conversations
    /\ Len(messages) >= 1
    /\ TurnRows = <<>>

\* C8: the list sent to the gateway is the system directive followed by the
\* stored history of the conversation as get_messages returns it, and its
\* last element is the user input of this turn; the turn writes no row with
\* role system.
C8_GatewayMessageList ==
    (chat.pc = "ContextAssembled") =>
        /\ \E history \in GetMessages(chat.conversation_id) :
              chat.llm_messages = <<SystemPrompt>> \o RolePairs(history)
        /\ chat.llm_messages[Len(chat.llm_messages)] =
              [role |-> "user", content |-> chat.user_input]
        /\ \A i \in 1..Len(TurnRows) : TurnRows[i].role # "system"

\* ------------------------------------------------- claims on the gateway
\* A frame of the shape {choices:[{delta:{content?}}]}.
WellShaped(j) ==
    /\ j.t = "obj"
    /\ "choices" \in DOMAIN j.fields
    /\ j.fields["choices"].t = "list"
    /\ Len(j.fields["choices"].items) > 0
    /\ j.fields["choices"].items[1].t = "obj"
    /\ "delta" \in DOMAIN j.fields["choices"].items[1].fields
    /\ j.fields["choices"].items[1].fields["delta"].t = "obj"

IsDataFrame(line) == ~line.indent /\ line.prefix /\ line.body.k # "done"

IsMalformedFrame(line) ==
    /\ IsDataFrame(line)
    /\ \/ line.body.k # "json"
       \/ ~WellShaped(line.body.j)

\* The non-empty delta content a line carries, as a sequence of 0 or 1 items.
FrameContent(line) ==
    IF IsDataFrame(line) /\ line.body.k = "json" /\ WellShaped(line.body.j)
    THEN LET delta == line.body.j.fields["choices"].items[1].fields["delta"] IN
         IF "content" \in DOMAIN delta.fields /\ Truthy(delta.fields["content"])
         THEN <<delta.fields["content"]>> ELSE <<>>
    ELSE <<>>

IsTerminator(line) == ~line.indent /\ line.prefix /\ line.body.k = "done"

RECURSIVE ExpectedFragments(_)
ExpectedFragments(lines) ==
    IF lines = <<>> \/ IsTerminator(Head(lines)) THEN <<>>
    ELSE FrameContent(Head(lines)) \o ExpectedFragments(Tail(lines))

\* C9: a malformed data frame (unparsable JSON or a payload of another
\* shape) is skipped; the fragment sequence is never aborted at such a frame.
C9_MalformedFrameSkipped ==
    ~(/\ sState = "raised"
      /\ sExc # "NetworkError"
      /\ IsMalformedFrame(sLines[sPos]))

\* C10: once the generator has finished, the fragments it yielded are exactly
\* the non-empty delta contents of the frames before the first terminator.
C10_YieldedAreFrameContents ==
    (sState # "running") => sYielded = ExpectedFragments(sLines)

\* ------------------------------------------------ claims on the repository
\* The ids of the messages of a conversation, and of the images on them.
MessagesOf(conversation_id) ==
    { m.id : m \in { r \in Rows(messages) : r.conversation_id = conversation_id } }

ImagesOf(message_ids) ==
    { i.id : i \in { r \in images : r.message_id \in message_ids } }

\* C11: when delete_conversation(c) returns true, no message, image, tool
\* execution or vision analysis is left that references c, one of its
\* former messages or one of their former images.
C11_DeleteCascades ==
    [][\A c \in 1..MaxConversations :
          (DeleteConversation(c) /\ DeleteConversationReturns(c)) =>
             LET formerMessages == MessagesOf(c)
                 formerImages == ImagesOf(formerMessages)
             IN /\ \A m \in Rows(messages') :
                      m.conversation_id # c /\ m.id \notin formerMessages
                /\ \A i \in images' :
                      i.message_id \notin formerMessages /\ i.id \notin formerImages
                /\ \A t \in tool_executions' : t.message_id \notin formerMessages
                /\ \A a \in vision_analyses' :
                      a.image_id \notin formerImages /\ a.message_id \notin formerMessages
      ]_vars

\* Conversation 1 has been deleted with a message, an image, an analysis and
\* a tool execution beneath it, while conversation 2 keeps its message.
C11_Witness ==
    /\ conversations = {2}
    /\ Len(messages) >= 1
    /\ msgSeq > Len(messages)
    /\ images = {} /\ sqlite_sequence.images >= 1
    /\ vision_analyses = {} /\ sqlite_sequence.vision_analyses >= 1
    /\ tool_executions = {} /\ sqlite_sequence.tool_executions >= 1

\* C12: in every reachable state each message references an existing
\* conversation, each image an existing message, each vision analysis an
\* existing image (and an existing message when it names one), each tool
\* execution an existing message when it names one; and add_message or
\* add_image for a parent that does not exist is rejected with an integrity
\* error and cannot change the store.
C12_ReferentialIntegrity ==
    /\ \A m \in Rows(messages) : m.conversation_id \in conversations
    /\ \A i \in images : i.message_id \in MessageIds
    /\ \A a \in vision_analyses :
          /\ a.image_id \in ImageIds
          /\ a.message_id # 0 => a.message_id \in MessageIds
    /\ \A t \in tool_executions : t.message_id # 0 => t.message_id \in MessageIds
    /\ connection = "open" =>
          /\ \A c \in (1..MaxConversations) \ conversations :
                /\ AddMessageExc(c, JStr("memo")) = "IntegrityError"
                /\ ~ENABLED AddMessage(c, "user", "memo")
          /\ \A m \in (1..MaxMessages) \ MessageIds, h \in Hashes :
                /\ AddImageExc(m, h) = "IntegrityError"
                /\ ~ENABLED AddImage(m, h)

\* Every kind of reference is present while a conversation and its message
\* have been deleted, so that a parent id that once was valid is missing.
C12_Witness ==
    /\ connection = "open"
    /\ conversations = {2}
    /\ msgSeq > Len(messages)
    /\ \E m \in Rows(messages), i \in images, a \in vision_analyses,
          t \in tool_executions :
            /\ i.message_id = m.id
            /\ a.image_id = i.id /\ a.message_id = m.id
            /\ t.message_id = m.id

\* C13: no two stored images share a non-null hash; add_image with the hash
\* of a stored image is rejected with an integrity error and cannot change
\* the store; add_image with a null hash is never rejected for its hash.
C13_HashUnique ==
    /\ \A i, j \in images :
          (i.id # j.id /\ i.hash # NullHash) => i.hash # j.hash
    /\ connection = "open" =>
          \A m \in MessageIds :
             /\ \A i \in images :
                   i.hash # NullHash =>
                      /\ AddImageExc(m, i.hash) = "IntegrityError"
                      /\ ~ENABLED AddImage(m, i.hash)
             /\ AddImageExc(m, NullHash) = ""

\* Two images without a hash are stored next to one with a hash, and a
\* message exists that a further image could be attached to.
C13_Witness ==
    /\ connection = "open"
    /\ MessageIds # {}
    /\ Cardinality({ i \in images : i.hash = NullHash }) >= 2
    /\ \E i \in images : i.hash # NullHash

\* C14: for every key k and value v, set_context(k, v) succeeds and leaves
\* get_context(k) returning v with exactly one row stored for k; applied to
\* the second of two calls on the same key, the later value replaces the
\* earlier one and no second row appears.
C14_SetContextUpserts ==
    [][\A k \in ContextKeys, v \in ContextValues :
          /\ connection = "open" => SetContextExc(k, v) = ""
          /\ SetContext(k, v) =>
                /\ GetContext(k)' = v
                /\ Cardinality({ r \in context' : r.key = k }) = 1
      ]_vars

\* C15: every supported value x (maps, lists, scalars including null, empty
\* and nested ones) survives storage: set_context(k, x) succeeds and
\* get_context(k) then returns x; create_conversation(title, metadata=x)
\* succeeds and get_conversation of the new id returns metadata equal to x.
C15_JsonRoundTrip ==
    [][/\ \A k \in ContextKeys, x \in ContextValues :
             /\ connection = "open" => SetContextExc(k, x) = ""
             /\ SetContext(k, x) => GetContext(k)' = x
       /\ \A x \in MetadataInputs, id \in {convSeq + 1} :
             /\ connection = "open" => CreateConversationExc(x) = ""
             /\ CreateConversation(x) =>
                   GetConversation(id)' = [out |-> "row", id |-> id, metadata |-> x]
      ]_vars

\* C16: no read raises because of the metadata stored in a row: list_tasks,
\* get_conversation and list_conversations return their rows whatever the
\* metadata column holds.
C16_ReadsNeverRaise ==
    connection = "open" =>
       /\ ListTasksExc = ""
       /\ \A c \in conversations : GetConversation(c).out = "row"
       /\ \A limit \in 0..MaxConversations, offset \in 0..MaxConversations :
             \A outcome \in ListConversations(limit, offset) : outcome.out = "rows"

\* C17: add_message on conversation c sets the conversation's updated_at to
\* the time of the write, so that no other conversation is more recent and
\* c is first in some listing by updated_at descending.
C17_AddMessageBumpsUpdatedAt ==
    [][\A c \in 1..MaxConversations :
          AddMessage(c, "user", "memo") =>
             /\ convInfo'[c].updated_at = clock
             /\ \A d \in conversations : convInfo'[c].updated_at >= convInfo'[d].updated_at
             /\ \E order \in ConversationOrders' : order[1] = c
      ]_vars

\* Conversations updated later than c, and those updated no earlier than c.
NewerThan(c) ==
    Cardinality({ d \in conversations : convInfo[d].updated_at > convInfo[c].updated_at })

NotOlderThan(c) ==
    Cardinality({ d \in conversations : convInfo[d].updated_at >= convInfo[c].updated_at })

\* C18: list_conversations(limit, offset) returns stored conversations only,
\* none of them twice, sorted by updated_at descending, at most limit of
\* them, and they are the entries at positions offset+1 .. offset+limit of
\* the store sorted by updated_at descending.
C18_ListConversationsSlice ==
    \A limit \in 0..(MaxConversations + 1), offset \in 0..(MaxConversations + 1) :
       /\ ListConversations(limit, offset) # {}
       /\ \A outcome \in ListConversations(limit, offset) :
             outcome.out = "rows" =>
                LET rows == outcome.rows
                    n == Len(rows)
                    rest == IF Cardinality(conversations) > offset
                            THEN Cardinality(conversations) - offset ELSE 0
                IN /\ n <= limit
                   /\ n = IF limit < rest THEN limit ELSE rest
                   /\ \A i \in 1..n : rows[i] \in conversations
                   /\ \A i, j \in 1..n : i # j => rows[i] # rows[j]
                   /\ \A i, j \in 1..n :
                         i < j => convInfo[rows[i]].updated_at >= convInfo[rows[j]].updated_at
                   /\ \A i \in 1..n :
                         /\ NewerThan(rows[i]) <= offset + i - 1
                         /\ NotOlderThan(rows[i]) >= offset + i

\* Two conversations are stored and the one created first was updated
\* earlier, so the listing must put them in the reverse of insertion order.
C18_Witness ==
    /\ connection = "open"
    /\ conversations = {1, 2}
    /\ convInfo[1].updated_at < convInfo[2].updated_at
    /\ [out |-> "rows", rows |-> <<2, 1>>] \in ListConversations(2, 0)
    /\ [out |-> "rows", rows |-> <<1>>] \in ListConversations(1, 1)

\* The rows beneath conversation d: its images and tool executions (through
\* its messages) and the vision analyses of its images.
ImagesUnder(d) == { i \in images : i.message_id \in MessagesOf(d) }

ToolExecutionsUnder(d) == { t \in tool_executions : t.message_id \in MessagesOf(d) }

AnalysesUnder(d) == { a \in vision_analyses : a.image_id \in ImagesOf(MessagesOf(d)) }

\* What a step of delete_conversation(c) must satisfy: the value returned,
\* nothing changed for an id that names no conversation, and every other
\* conversation kept with its rows; `lost` are the analyses of other
\* conversations the step is allowed to remove.
DeleteStepAsSpecified(c, lost) ==
    /\ DeleteConversationReturns(c) = (c \in conversations /\ c \notin conversations')
    /\ c \notin conversations =>
          /\ ~DeleteConversationReturns(c)
          /\ UNCHANGED <<conversations, convInfo, messages, images, vision_analyses,
                         tool_executions, tasks, context>>
    /\ conversations' = conversations \ {c}
    /\ \A d \in conversations \ {c} :
          /\ convInfo'[d] = convInfo[d]
          /\ ConvRows(d)' = ConvRows(d)
          /\ ImagesUnder(d)' = ImagesUnder(d)
          /\ ToolExecutionsUnder(d)' = ToolExecutionsUnder(d)
          /\ AnalysesUnder(d)' = AnalysesUnder(d) \ lost

\* C19 (as written): delete_conversation(id) returns true iff a conversation
\* with that id existed and was removed; for an id that names no
\* conversation it returns false and leaves the store unchanged; every
\* other conversation and all rows beneath it are left unchanged.
C19_DeleteOnlyThatConversation ==
    connection = "open" =>
       \A c \in 1..MaxConversations :
          ~ENABLED (DeleteConversation(c) /\ ~DeleteStepAsSpecified(c, {}))

\* C19 (amended): as above, except that a vision analysis of another
\* conversation's image is removed when its message_id names a message of
\* the deleted conversation; every other row of the other conversations is
\* left unchanged.
C19_DeleteKeepsOthersButLinkedAnalyses ==
    connection = "open" =>
       \A c \in 1..MaxConversations :
          ~ENABLED (DeleteConversation(c) /\
                    ~DeleteStepAsSpecified(c,
                        { a \in vision_analyses : a.message_id \in MessagesOf(c) }))

\* Conversation 1 has been deleted; conversation 2 keeps its message and its
\* image, no image was ever removed, and the one analysis ever stored is
\* gone: it was attached to an image of conversation 2 and named a message
\* of conversation 1.
C19_Witness ==
    /\ connection = "open"
    /\ conversations = {2}
    /\ msgSeq > Len(messages)
    /\ \E m \in Rows(messages), i \in images : i.message_id = m.id
    /\ sqlite_sequence.images = Cardinality(images)
    /\ sqlite_sequence.vision_analyses = 1
    /\ vision_analyses = {}

\* C20: a write operation that returns has executed its one statement and
\* committed it: nothing is left uncommitted on the connection, and a create
\* has added exactly one row, whose id is the one the insert generated (the
\* table's sequence after the insert, never used before) and is the id the
\* operation returns.
C20_OneStatementOneCommit ==
    [][/\ CreateConversation(JNull) =>
             /\ pending' = 0
             /\ conversations' \ conversations = {convSeq'}
             /\ convSeq' > convSeq
       /\ (\E c \in 1..MaxConversations : AddMessage(c, "user", "memo")) =>
             /\ pending' = 0
             /\ Rows(messages') \ Rows(messages) = {messages'[Len(messages')]}
             /\ messages'[Len(messages')].id = msgSeq'
             /\ msgSeq' > msgSeq
             /\ Cardinality(MessageIds') = Len(messages')
       /\ (\E m \in 1..MaxMessages : AddImage(m, NullHash)) =>
             /\ pending' = 0
             /\ { i.id : i \in images' \ images } = {sqlite_sequence'.images}
             /\ sqlite_sequence'.images > sqlite_sequence.images
       /\ (\E i \in 1..MaxImages : AddVisionAnalysis(i, 0, SqlNull)) =>
             /\ pending' = 0
             /\ { a.id : a \in vision_analyses' \ vision_analyses }
                   = {sqlite_sequence'.vision_analyses}
             /\ sqlite_sequence'.vision_analyses > sqlite_sequence.vision_analyses
       /\ CreateTask(0) =>
             /\ pending' = 0
             /\ { t.id : t \in tasks' \ tasks } = {sqlite_sequence'.tasks}
             /\ sqlite_sequence'.tasks > sqlite_sequence.tasks
       /\ SetContext("theme", JNum(0)) => pending' = 0
       /\ (\E c \in 1..MaxConversations : DeleteConversation(c)) => pending' = 0
      ]_vars

\* Every kind of write has returned: a conversation was deleted, another
\* holds a message with an image and its analysis, a task and a context
\* entry are stored, and nothing is left uncommitted.
C20_Witness ==
    /\ pending = 0
    /\ conversations = {2}
    /\ messages # <<>>
    /\ images # {}
    /\ vision_analyses # {}
    /\ tasks # {}
    /\ context # {}

\* ---------------------------------------------------------------------
\* Vision analyses with a confidence
\* ---------------------------------------------------------------------

\* The confidences a caller passes: None, 0.0, 0.5, 1.0 and the
\* out-of-range -0.1 and 1.1.
Confidences == {SqlNull, Real(-1), Real(0), Real(5), Real(10), Real(11)}

NextVision ==
    \/ Initialize
    \/ CreateConversation(JNull)
    \/ \E c \in 1..MaxConversations : AddMessage(c, "user", "memo")
    \/ \E m \in 1..MaxMessages : AddImage(m, NullHash)
    \/ \E i \in 1..MaxImages, m \in 0..MaxMessages, confidence \in Confidences :
          AddVisionAnalysis(i, m, confidence)

SpecVision == Init /\ [][NextVision]_vars

\* C21: a vision analysis whose confidence lies outside [0,1] is rejected
\* at write time and not stored, never clamped: each stored vision analysis
\* has a confidence that is null or within [0,1], add_vision_analysis with
\* a confidence outside [0,1] cannot take a step, and one that does take a
\* step stores the confidence it was given.
C21_ConfidenceInRange ==
    /\ \A a \in vision_analyses :
          \/ a.confidence = SqlNull
          \/ a.confidence.tenths >= 0 /\ a.confidence.tenths <= 10
    /\ \A i \in 1..MaxImages, m \in 0..MaxMessages, confidence \in Confidences :
          /\ (confidence # SqlNull /\ (confidence.tenths < 0 \/ confidence.tenths > 10))
                => ~ENABLED AddVisionAnalysis(i, m, confidence)
          /\ ~ENABLED (/\ AddVisionAnalysis(i, m, confidence)
                       /\ \A a \in vision_analyses' \ vision_analyses :
                             a.confidence # confidence)

\* An analysis with confidence 1.0 is stored for image 1, and the same call
\* with confidence 1.1 is stopped by the confidence alone.
C21_Witness ==
    /\ connection = "open"
    /\ \E a \in vision_analyses : a.confidence = Real(10) /\ a.image_id = 1
    /\ AddVisionAnalysisExc(1, 0, SqlNull) = ""
    /\ AddVisionAnalysisExc(1, 0, Real(11)) = "IntegrityError"

\* The statuses the tasks table admits.
TaskStatuses == {"pending", "in_progress", "completed", "failed"}

\* C22: in every reachable state each stored task has a priority that is
\* an integer in 0..10 and a status among pending, in_progress, completed
\* and failed; create_task being the only writer of tasks, this is to say
\* that create_task with a priority outside 0..10 stores no task.
C22_TaskPriorityInRange ==
    \A t \in tasks : t.priority \in 0..10 /\ t.status \in TaskStatuses

\* ---------------------------------------------------------------------
\* The LLM client on its own
\* ---------------------------------------------------------------------
InitGateway ==
    /\ InitStore
    /\ InitTurn
    /\ InitHost
    /\ sLines = <<>>
    /\ sEnding = "eof"
    /\ sPos = 0
    /\ sYielded = <<>>
    /\ sState = "ended"
    /\ sExc = ""
    /\ gw \in { IdleGateway(config) : config \in Configs }

\* The message lists a caller passes: empty, a plain message, a message
\* whose content is None, and one without content.
CallMessages ==
    { JList(<<>>),
      JList(<<ChatMessage(JStr("hi"))>>),
      JList(<<ChatMessage(JNull)>>),
      JList(<<JObj([role |-> JStr("user")])>>) }

CallArgs ==
    { ChatArgs(m, JNull, JNull, JNull, s, JNull) :
        m \in CallMessages, s \in {JNull, JBool(TRUE), JBool(FALSE)} }

\* What ends the read of a streamed body early.
StreamFailures == {"NetworkError", "HTTPStatusError", "CancelledError"}

NextGateway ==
    \/ \E outcome \in ProbeOutcomes : CallCheckConnection(outcome)
    \/ \E outcome \in ProbeOutcomes : CallGetModels(outcome)
    \/ \E args \in CallArgs, outcome \in ChatOutcomes : Chat(args, outcome)
    \/ GwPull
    \/ GwBodyEnds
    \/ \E line \in Lines : GwReadLine(line)
    \/ \E exc \in StreamFailures : GwBodyFails(exc)
    \/ GwDrop
    \/ GwFinalize
    \/ GwReset

SpecGateway == InitGateway /\ [][NextGateway]_vars

\* The arguments of chat that bear on the payload.
PayloadArgs ==
    { ChatArgs(JList(<<ChatMessage(JStr("hi"))>>), model, temperature, max_tokens, stream, tools) :
        model \in {JNull, JStr(""), JStr("m1")},
        temperature \in {JNull, JNum(0), JNum(12)},
        max_tokens \in {JNull, JNum(0), JNum(100)},
        stream \in {JNull, JBool(FALSE), JBool(TRUE)},
        tools \in {JNull, JList(<<>>), JList(<<JObj([type |-> JStr("function")])>>)} }

NextPayload ==
    \/ \E args \in PayloadArgs : Chat(args, [ok |-> TRUE, v |-> UnaryMessage([content |-> JStr("Pong")])])
    \/ GwDrop
    \/ GwFinalize
    \/ GwReset

SpecPayload == InitGateway /\ [][NextPayload]_vars

\* C23: check_connection always returns a boolean and never raises,
\* whatever the backend does: it returns true exactly when the probe of the
\* models listing is answered with status 200, and false otherwise.
C23_CheckConnectionBoolean ==
    gw.op = "check_connection" =>
       /\ gw.result.ok
       /\ gw.result.v \in BOOLEAN
       /\ gw.result.v <=> (gw.outcome.kind = "response" /\ gw.outcome.status = 200)

\* check_connection has returned true on a 200 whose body is not JSON.
C23_Witness ==
    /\ gw.op = "check_connection"
    /\ gw.outcome.kind = "response"
    /\ gw.outcome.status = 200
    /\ gw.outcome.body = TextBody
    /\ gw.result = [ok |-> TRUE, v |-> TRUE]

\* The body of a successful answer has the shape {data: [{id}, ...]}.
ExpectedListing(outcome) ==
    /\ outcome.kind = "response"
    /\ IsSuccess(outcome.status)
    /\ outcome.body.k = "json"
    /\ outcome.body.j.t = "obj"
    /\ "data" \in DOMAIN outcome.body.j.fields
    /\ outcome.body.j.fields["data"].t = "list"
    /\ \A i \in 1..Len(outcome.body.j.fields["data"].items) :
          /\ outcome.body.j.fields["data"].items[i].t = "obj"
          /\ "id" \in DOMAIN outcome.body.j.fields["data"].items[i].fields

\* C24: get_models never raises: on any failure (connection error,
\* non-success status, body that is not of the shape {data:[{id}]}) it
\* returns an empty list, and on success it returns the ids of the listed
\* models in the order of the response.
C24_GetModelsNeverRaises ==
    gw.op = "get_models" =>
       /\ gw.result.ok
       /\ IF ExpectedListing(gw.outcome)
          THEN LET listed == gw.outcome.body.j.fields["data"].items IN
               /\ Len(gw.result.v) = Len(listed)
               /\ \A i \in 1..Len(listed) : gw.result.v[i] = listed[i].fields["id"]
          ELSE gw.result.v = <<>>

\* get_models has returned m2 before m1, as listed.
C24_Witness ==
    /\ gw.op = "get_models"
    /\ gw.result = [ok |-> TRUE, v |-> <<JStr("m2"), JStr("m1")>>]

\* C25: chat builds its payload from the supplied values and falls back
\* to the configured default only for a parameter left out: a temperature,
\* max_tokens or stream that was supplied, 0 and false included, is used as
\* given; a model left out or empty falls back to the configured model
\* name and, if that is empty too, to "local-model"; tools and
\* tool_choice = "auto" are in the payload exactly when a non-empty tools
\* list was supplied.
C25_PayloadFromArguments ==
    gw.op = "chat" =>
       LET args == gw.args
           payload == gw.payload
           Given(name) == IF args[name] # JNull THEN args[name] ELSE gw.config[name]
       IN /\ payload.messages = args.messages
          /\ \A name \in {"temperature", "max_tokens", "stream"} :
                payload[name] = Given(name)
          /\ payload.model =
                IF args.model \notin {JNull, JStr("")} THEN args.model
                ELSE IF gw.config.model_name # JStr("") THEN gw.config.model_name
                ELSE JStr("local-model")
          /\ LET supplied == args.tools.t = "list" /\ Len(args.tools.items) > 0 IN
             /\ ("tools" \in DOMAIN payload) <=> supplied
             /\ ("tool_choice" \in DOMAIN payload) <=> supplied
             /\ supplied => /\ payload.tools = args.tools
                            /\ payload.tool_choice = JStr("auto")

\* chat was called with temperature 0, max_tokens 0, stream=False, an empty
\* model and one tool, on a client configured to stream with no model name.
C25_Witness ==
    /\ gw.op = "chat"
    /\ gw.config = DefaultConfig
    /\ gw.args.temperature = JNum(0)
    /\ gw.args.max_tokens = JNum(0)
    /\ gw.args.stream = JBool(FALSE)
    /\ gw.args.model = JStr("")
    /\ Truthy(gw.args.tools)
    /\ gw.payload.temperature = JNum(0)
    /\ gw.payload.model = JStr("local-model")
    /\ gw.pc = "returned"

C27_LoggingHasNoEffect ==
    (gw.op = "chat" /\ gw.pc \in {"returned", "raised", "ended", "closed"}) =>
       /\ RequestLogExc(gw.args.messages) = ""
       /\ IF Truthy(gw.payload.stream)
          THEN IF gw.result.ok THEN gw.inflight = ""
               ELSE gw.result.exc = gw.inflight
          ELSE gw.result = IF gw.outcome.ok THEN UnaryResponseNoLog(gw.outcome.v)
                           ELSE gw.outcome

\* C28: every client the gateway opens for a chat call is released: in
\* unary mode on return or error, in streaming mode when the stream is
\* exhausted, when the terminator is read, when an error occurs and when the
\* caller abandons the fragment sequence, pulled or not.  A call is over
\* once it has returned or raised, once its generator has ended or raised,
\* or once the generator that was let go has been finalized: no client is
\* open then.
C28_ClientReleased ==
    (gw.op = "chat" /\ gw.pc \in {"returned", "raised", "ended", "closed"}) =>
       gw.client # "open"

\* ---------------------------------------------------------------------
\* The life cycle of the Database
\* ---------------------------------------------------------------------
NextLifecycle ==
    \/ Initialize
    \/ Reinitialize
    \/ Close
    \/ CreateConversation(JNull)
    \/ \E c \in 1..MaxConversations : AddMessage(c, "user", "memo")
    \/ \E c \in 1..MaxConversations : DeleteConversation(c)
    \/ SetContext("theme", JNum(0))
    \/ CreateTask(0)

SpecLifecycle == Init /\ [][NextLifecycle]_vars

DbOperations == {"execute", "executemany", "commit", "rollback"}

\* The rows of every table stay as they are.
StoredDataUnchanged ==
    UNCHANGED <<conversations, convSeq, convInfo, messages, msgSeq, images,
                vision_analyses, tool_executions, tasks, context,
                sqlite_sequence>>

\* C29: close is idempotent and releases the connection: close can always
\* be called, after it the store holds no connection and the rows are as
\* before, a second close changes nothing, and execute, executemany, commit
\* and rollback called before initialize or after close fail with an error
\* and no write to the store can take place.
C29_CloseIdempotent ==
    /\ ENABLED Close
    /\ ~ENABLED (Close /\ ~(connection' = "none" /\ StoredDataUnchanged))
    /\ connection = "none" =>
          /\ ~ENABLED (Close /\ vars' # vars)
          /\ \A operation \in DbOperations : DbExc(operation) = "RuntimeError"
          /\ ~ENABLED (/\ \/ CreateConversation(JNull)
                          \/ \E c \in 1..MaxConversations : AddMessage(c, "user", "memo")
                          \/ \E c \in 1..MaxConversations : DeleteConversation(c)
                          \/ SetContext("theme", JNum(0))
                          \/ CreateTask(0)
                       /\ ~StoredDataUnchanged)

\* The store was initialized, written to and closed: it holds a
\* conversation, a message and a task, and no connection.
C29_Witness ==
    /\ connection = "none"
    /\ conversations # {}
    /\ Len(messages) >= 1
    /\ tasks # {}

\* C30: a second initialize on an initialized store is a no-op: it changes
\* neither the schema nor any stored row, and it leaves the store with
\* exactly one open connection, none being left open and unreferenced.
C30_ReinitializeNoOp ==
    [][Reinitialize =>
          /\ StoredDataUnchanged
          /\ connection' = "open"
          /\ orphans' = 0
      ]_vars

\* ---------------------------------------------------------------------
\* The scoped acquisition of the Database: async with db:
\* ---------------------------------------------------------------------
\* Statements a scope may leave uncommitted before it commits or exits.
MaxUncommitted == 2

\* How initialize ends inside __aenter__: it succeeds, aiosqlite.connect
\* raises (no connection was opened), or a statement after connect raises
\* (the PRAGMAs or the schema, e.g. the file is not a database or is locked).
EnterOutcomes == {"ok", "connect_fails", "schema_fails"}

\* Database.__aenter__: await self.initialize(); return self.  initialize
\* assigns self.connection as soon as connect returns, and its handler logs
\* and re-raises without closing.  When __aenter__ raises, the body does not
\* run and __aexit__ is not called.
ScopeEnter(outcome) ==
    /\ uow.pc # "in"
    /\ connection = "open" => orphans < MaxOrphans
    /\ IF outcome = "connect_fails"
         THEN UNCHANGED <<connection, orphans>>
         ELSE /\ connection' = "open"
              /\ orphans' = IF connection = "open" THEN orphans + 1 ELSE orphans
    /\ uow' = [pc |-> IF outcome = "ok" THEN "in" ELSE "failed", snapshot |-> context]
    /\ UNCHANGED <<app, prev, conversations, convSeq, messages, clock, msgSeq, convInfo, pending,
                   repoVars, turnVars, streamVars>>

\* The values a scope body writes to the context table.
ScopeValues == {JsonBody(JNum(0)), JsonBody(JNum(1))}

\* await db.execute("INSERT ... ON CONFLICT ...") in the body, without a
\* commit: the statement opens a transaction if none is open.
ScopeExecute(key, text) ==
    /\ uow.pc = "in"
    /\ DbExc("execute") = ""
    /\ pending < MaxUncommitted
    /\ context' = { r \in context : r.key # key } \cup {[key |-> key, value |-> text]}
    /\ pending' = Execute(pending)
    /\ uow' = [uow EXCEPT !.snapshot = IF pending = 0 THEN context ELSE @]
    /\ UNCHANGED <<app, prev, connection, orphans, conversations, convSeq, messages, clock, msgSeq,
                   convInfo, images, vision_analyses, tool_executions, tasks,
                   sqlite_sequence, turnVars, streamVars>>

\* await db.commit() in the body.
ScopeCommit ==
    /\ uow.pc = "in"
    /\ DbExc("commit") = ""
    /\ pending' = Commit(pending)
    /\ uow' = [uow EXCEPT !.snapshot = context]
    /\ UNCHANGED <<app, prev, connection, orphans, conversations, convSeq, messages, clock, msgSeq,
                   convInfo, repoVars, turnVars, streamVars>>

\* Database.__aexit__: await self.close(), whether the body completed or
\* raised; it returns None, so an exception of the body propagates.
ScopeExit(how) ==
    /\ uow.pc = "in"
    /\ CloseConnection
    /\ uow' = [uow EXCEPT !.pc = how]
    /\ UNCHANGED <<app, prev>>

NextScope ==
    \/ \E outcome \in EnterOutcomes : ScopeEnter(outcome)
    \/ \E key \in ContextKeys, text \in ScopeValues : ScopeExecute(key, text)
    \/ ScopeCommit
    \/ \E how \in {"completed", "raised"} : ScopeExit(how)

SpecScope == Init /\ [][NextScope]_vars

\* C31: once a scope is over (its body completed, its body raised, or
\* initialize failed inside __aenter__), the Database holds no connection,
\* none is left open without a reference, and the context table is as the
\* last commit left it.
C31_ScopeReleasesConnection ==
    uow.pc \in {"completed", "raised", "failed"} =>
        /\ connection = "none"
        /\ orphans = 0
        /\ pending = 0
        /\ context = uow.snapshot

\* ---------------------------------------------------------------------
\* The order of the events of a turn
\* ---------------------------------------------------------------------
\* The steps of the per-turn state machine: where the generator stands
\* before and after a step of the turn.  A failure of the two statements
\* before the try block leaves by raising (Raised); closing the generator
\* leaves at a suspension point (Abandoned).
TurnOrder ==
    { <<"Idle", "UserPersisted">>, <<"Idle", "Raised">>,
      <<"UserPersisted", "ContextAssembled">>, <<"UserPersisted", "Raised">>,
      <<"ContextAssembled", "AwaitingModel">>, <<"ContextAssembled", "FragmentYielded">>,
      <<"ContextAssembled", "Done">>, <<"ContextAssembled", "Errored">>,
      <<"AwaitingModel", "AwaitingModel">>, <<"AwaitingModel", "FragmentYielded">>,
      <<"AwaitingModel", "Done">>, <<"AwaitingModel", "Errored">>,
      <<"AwaitingModel", "Abandoned">>,
      <<"FragmentYielded", "AwaitingModel">>, <<"FragmentYielded", "Done">>,
      <<"FragmentYielded", "Errored">>, <<"FragmentYielded", "Abandoned">> }
    \cup { <<pc, "Idle">> : pc \in {"Done", "Errored", "Raised", "Abandoned"} }

\* The user message of the turn in progress is stored.
UserMessageCommitted ==
    /\ Len(messages) > obs.startLen
    /\ messages[obs.startLen + 1].role = "user"
    /\ messages[obs.startLen + 1].conversation_id = chat.conversation_id
    /\ messages[obs.startLen + 1].content = chat.user_input

\* C32: every step of a turn follows the order Start, user message
\* committed, history read, gateway invoked, fragments emitted, assistant
\* message committed, Done, an error ending the turn in Errored from any
\* state inside the try block: a fragment is emitted or the gateway invoked
\* only with the user message stored and the history read; the step that
\* writes the assistant message emits nothing and ends the turn in Done;
\* the error fragment is emitted by the step that ends the turn in Errored;
\* and from Done or Errored the turn emits and writes nothing more.
C32_TurnEventOrder ==
    [][(chat' # chat \/ obs' # obs) =>
          /\ <<chat.pc, chat'.pc>> \in TurnOrder
          /\ (chat'.pc # "Idle" /\ obs'.emitted # obs.emitted) =>
                /\ UserMessageCommitted
                /\ obs'.gatewayInvoked
                /\ chat.pc \in {"ContextAssembled", "AwaitingModel", "FragmentYielded"}
                /\ Len(obs'.emitted) = Len(obs.emitted) + 1
          /\ (obs'.gatewayInvoked /\ ~obs.gatewayInvoked) =>
                /\ UserMessageCommitted
                /\ chat.pc = "ContextAssembled"
          /\ (chat.pc # "Idle" /\ messages' # messages) =>
                /\ chat'.pc = "Done"
                /\ obs'.emitted = obs.emitted
                /\ messages' = Append(messages, messages'[Len(messages')])
                /\ messages'[Len(messages')].role = "assistant"
          /\ chat'.pc = "Errored" =>
                /\ messages' = messages
                /\ obs'.emitted = Append(obs.emitted, obs'.emitted[Len(obs'.emitted)])
          /\ chat.pc \in {"Done", "Errored"} =>
                /\ chat' = IdleChat
                /\ messages' = messages
      ]_vars

\* A streamed turn has gone through every event: two fragments were emitted
\* and the assistant message was written after them.
C32_Witness ==
    /\ chat.pc = "Done"
    /\ chat.stream
    /\ Len(obs.emitted) = 2
    /\ UserMessageCommitted
    /\ Len(messages) = obs.startLen + 2
    /\ messages[Len(messages)].role = "assistant"

\* ---------------------------------------------------------------------
\* Termination of a turn
\* ---------------------------------------------------------------------
\* One caller that iterates Agent.chat to its end, on a store that may be
\* opened and closed meanwhile.
NextTurn ==
    \/ Initialize
    \/ Close
    \/ CreateConversation(JNull)
    \/ \E c \in 1..MaxConversations, input \in UserInputs, stream \in BOOLEAN :
          StartTurn(c, input, stream)
    \/ LoadHistory
    \/ InvokeGatewayStream
    \/ \E outcome \in UnaryOutcomes : InvokeGatewayUnary(outcome)
    \/ AgentStreamEnds
    \/ AgentStreamFails
    \/ \E line \in Lines : AgentReadsLine(line)
    \/ Resume
    \/ EndTurn

\* Every awaited store operation returns, the caller asks for the next
\* fragment, and the response of the backend ends: it is exhausted, its
\* terminator is read, or the read fails (the request has a timeout).
TurnFairness ==
    /\ WF_vars(LoadHistory)
    /\ WF_vars(InvokeGatewayStream)
    /\ WF_vars(\E outcome \in UnaryOutcomes : InvokeGatewayUnary(outcome))
    /\ WF_vars(AgentStreamEnds \/ AgentStreamFails)
    /\ WF_vars(Resume)

SpecTurnFair == Init /\ [][NextTurn]_vars /\ TurnFairness

\* C33: every turn terminates: once its user message is stored, a turn
\* whose store operations return and whose backend response ends reaches
\* Done or Errored.
C33_TurnTerminates ==
    (chat.pc = "UserPersisted") ~> (chat.pc \in {"Done", "Errored"})

\* ---------------------------------------------------------------------
\* FluxaApp: the processing guard
\* ---------------------------------------------------------------------
\* Input.Submitted events the model delivers.
MaxInputs == 3

\* The texts submitted: a message, the empty text and blanks.
AppInputs == {"Ping", "", "  "}

\* not event.value.strip()
Blank(value) == value \in {"", "  "}

\* How on_mount goes: the database cannot be opened, the backend does not
\* answer the probe, or the agent and its conversation are set up.
MountOutcomes == {"db_fails", "no_backend", "ready"}

\* FluxaApp.on_mount
AppMount(outcome) ==
    /\ ~app.mounted
    /\ connection = "none"
    /\ convSeq < MaxConversations
    /\ connection' = IF outcome = "db_fails" THEN "none" ELSE "open"
    /\ IF outcome = "ready"
       THEN /\ convSeq' = convSeq + 1
            /\ conversations' = conversations \cup {convSeq + 1}
            /\ convInfo' = [c \in conversations' |->
                              IF c = convSeq + 1
                              THEN [created_at |-> clock, updated_at |-> clock,
                                    metadata |-> ToJson(OrEmptyDict(JNull))]
                              ELSE convInfo[c]]
            /\ app' = [app EXCEPT !.mounted = TRUE, !.agent = "ready",
                                  !.conversation_id = convSeq + 1]
       ELSE /\ app' = [app EXCEPT !.mounted = TRUE]
            /\ UNCHANGED <<convSeq, conversations, convInfo>>
    /\ UNCHANGED <<uow, prev, orphans, messages, clock, msgSeq, pending, repoVars, turnVars, streamVars>>

\* Variant: the handler tests only the text, not the guard.
IgnoredBlankOnly(value) == Blank(value)

\* if self.is_processing or not event.value.strip(): return
Ignored(value) == app.is_processing \/ Blank(value)

\* FluxaApp.on_input_submitted up to its first await: an ignored event
\* returns at once; an accepted one clears the input, sets the guard and
\* goes on to mount the widget of the user message.
InputSubmitted(value) ==
    /\ app.submitted < MaxInputs
    /\ IF Ignored(value)
       THEN app' = [app EXCEPT !.submitted = @ + 1]
       ELSE /\ app.handler = "idle"
            /\ app' = [app EXCEPT !.submitted = @ + 1, !.accepted = @ + 1,
                                  !.is_processing = TRUE,
                                  !.handler = "mount_user", !.input = value]
    /\ UNCHANGED <<uow, prev, storeVars, turnVars, streamVars>>

\* query_one("#chat-container") and await chat_container.mount(...): the
\* widget is mounted, or the call raises (no such container, the application
\* is shutting down) and the handler ends with that exception.  After the
\* second mount the handler creates the process_chat task and returns.
Mounts(outcome) ==
    /\ app.handler \in {"mount_user", "mount_assistant"}
    /\ app' =
         IF outcome = "raises"
         THEN [app EXCEPT !.handler = "idle"]
         ELSE IF app.handler = "mount_user"
         THEN [app EXCEPT !.handler = "mount_assistant"]
         ELSE [app EXCEPT !.handler = "idle",
                          !.tasks = Append(@, [pc |-> "created", input |-> app.input,
                                               chunks |-> 0])]
    /\ UNCHANGED <<uow, prev, storeVars, turnVars, streamVars>>

\* tasks without its i-th element
Without(tasks_, i) ==
    SubSeq(tasks_, 1, i - 1) \o SubSeq(tasks_, i + 1, Len(tasks_))

\* process_chat starts: without an agent or a conversation it says so,
\* clears the guard and returns; otherwise it starts iterating Agent.chat,
\* whose first step writes the user message (a failure of that write is
\* caught by process_chat, whose finally block clears the guard).
TaskBegins(i) ==
    /\ i \in 1..Len(app.tasks)
    /\ app.tasks[i].pc = "created"
    /\ IF app.agent # "ready"
       THEN /\ app' = [app EXCEPT !.is_processing = FALSE, !.tasks = Without(@, i)]
            /\ UNCHANGED messages
       ELSE IF AddMessageExc(app.conversation_id, JStr(app.tasks[i].input)) # ""
       THEN /\ app' = [app EXCEPT !.is_processing = FALSE, !.tasks = Without(@, i)]
            /\ UNCHANGED messages
       ELSE /\ app' = [app EXCEPT !.tasks[i].pc = "iterating"]
            /\ messages' = InsertMessage(app.conversation_id, "user",
                                         JStr(app.tasks[i].input), "")
    /\ msgSeq' = LargestRowid(messages', msgSeq)
    /\ UNCHANGED <<uow, prev, connection, orphans, conversations, convSeq, clock, convInfo, pending,
                   repoVars, turnVars, streamVars>>

\* async for chunk in self.agent.chat(...): one more chunk is shown.
TaskChunk(i) ==
    /\ i \in 1..Len(app.tasks)
    /\ app.tasks[i].pc = "iterating"
    /\ app.tasks[i].chunks < MaxFragments
    /\ app' = [app EXCEPT !.tasks[i].chunks = @ + 1]
    /\ UNCHANGED <<uow, prev, storeVars, turnVars, streamVars>>

\* The iteration ends: the turn is Done (with text received, the assistant
\* message has been written), the turn has yielded its error fragment, or
\* an exception reaches process_chat (from the history read, or from the
\* update of the widget); the finally block clears the guard.
TaskEnds(i, outcome) ==
    /\ i \in 1..Len(app.tasks)
    /\ app.tasks[i].pc = "iterating"
    /\ app' = [app EXCEPT !.is_processing = FALSE, !.tasks = Without(@, i)]
    /\ messages' =
         IF /\ outcome = "done"
            /\ app.tasks[i].chunks > 0
            /\ AddMessageExc(app.conversation_id, JStr("Pong")) = ""
         THEN InsertMessage(app.conversation_id, "assistant", JStr("Pong"), ModelName)
         ELSE messages
    /\ msgSeq' = LargestRowid(messages', msgSeq)
    /\ UNCHANGED <<uow, prev, connection, orphans, conversations, convSeq, clock, convInfo, pending,
                   repoVars, turnVars, streamVars>>

NextApp ==
    \/ \E outcome \in MountOutcomes : AppMount(outcome)
    \/ \E value \in AppInputs : InputSubmitted(value)
    \/ \E outcome \in {"mounted", "raises"} : Mounts(outcome)
    \/ \E i \in 1..MaxInputs : TaskBegins(i)
    \/ \E i \in 1..MaxInputs : TaskChunk(i)
    \/ \E i \in 1..MaxInputs, outcome \in {"done", "errored", "raises"} : TaskEnds(i, outcome)

SpecApp == Init /\ [][NextApp]_vars

\* The process_chat tasks that are iterating Agent.chat.
TurnsInFlight == { i \in 1..Len(app.tasks) : app.tasks[i].pc = "iterating" }

\* C34: at most one process_chat task exists and at most one turn of
\* Agent.chat is in flight at any time, and an Input.Submitted event that
\* arrives while the guard is set creates no task and writes nothing to the
\* store.
C34_TurnsSerialized ==
    /\ [](Len(app.tasks) <= 1 /\ Cardinality(TurnsInFlight) <= 1)
    /\ [][(app.is_processing /\ app'.submitted = app.submitted + 1) =>
             /\ app'.tasks = app.tasks
             /\ app'.handler = app.handler
             /\ app'.accepted = app.accepted
             /\ app'.is_processing
             /\ UNCHANGED storeVars
         ]_vars

\* An input was submitted while a turn was in flight, and was ignored.
C34_Witness ==
    /\ Cardinality(TurnsInFlight) = 1
    /\ app.is_processing
    /\ app.accepted = 1
    /\ app.submitted = 2
    /\ Len(messages) = 1

\* The event loop runs every handler and task that is ready: a mount
\* returns or raises, a created task starts, and the turn a task iterates
\* comes to its end.
AppFairness ==
    /\ WF_vars(\E outcome \in {"mounted", "raises"} : Mounts(outcome))
    /\ WF_vars(\E i \in 1..MaxInputs : TaskBegins(i))
    /\ WF_vars(\E i \in 1..MaxInputs, outcome \in {"done", "errored", "raises"} :
                   TaskEnds(i, outcome))

SpecAppFair == Init /\ [][NextApp]_vars /\ AppFairness

\* C35: the processing guard is always released: whenever is_processing is
\* true it eventually becomes false again.
C35_GuardReleased ==
    app.is_processing ~> ~app.is_processing

\* ---------------------------------------------------------------------
\* Create operations that raise
\* ---------------------------------------------------------------------
\* C36: a create operation of the Repository that raises leaves the store
\* unchanged: a create_task or create_conversation call that ends with an
\* error has stored no row.  (add_message, add_image and add_vision_analysis
\* raise only when the INSERT itself is refused.)
C36_FailedCreateStoresNothing ==
    [][/\ \A priority \in Priorities :
             (CreateTask(priority) /\ CreateTaskExc(priority) # "") => StoredDataUnchanged
       /\ \A metadata \in MetadataInputs :
             (CreateConversation(metadata) /\ CreateConversationExc(metadata) # "")
                 => StoredDataUnchanged
      ]_vars

\* ---------------------------------------------------------------------
\* A conversation deleted under a streaming turn
\* ---------------------------------------------------------------------
\* MemoryManager.delete_conversation run by another task while the turn is
\* suspended in the streaming loop (awaiting the next frame, or at a yield).
DeleteWhileStreaming(conversation_id) ==
    /\ chat.pc \in {"AwaitingModel", "FragmentYielded"}
    /\ conversation_id \in conversations
    /\ DeleteConversation(conversation_id)

NextDelete ==
    \/ Initialize
    \/ CreateConversation(JNull)
    \/ \E c \in 1..MaxConversations, input \in UserInputs : StartTurn(c, input, TRUE)
    \/ LoadHistory
    \/ InvokeGatewayStream
    \/ \E c \in 1..MaxConversations : DeleteWhileStreaming(c)
    \/ AgentStreamEnds
    \/ AgentStreamFails
    \/ \E line \in Lines : AgentReadsLine(line)
    \/ Resume
    \/ EndTurn

SpecDelete == Init /\ [][NextDelete]_vars

\* The turn has come to its end and its conversation was deleted meanwhile.
EndedWithoutConversation ==
    /\ chat.pc \in {"Done", "Errored"}
    /\ chat.conversation_id \notin conversations

\* C37 as stated: a turn whose conversation was deleted while it was
\* suspended in streaming ends with an error fragment, and no message row
\* refers to the deleted conversation.
C37_DeletedTurnErrors ==
    EndedWithoutConversation =>
        /\ chat.pc = "Errored"
        /\ Len(obs.emitted) >= 1
        /\ ConvRows(chat.conversation_id) = <<>>

\* C37, amended: a turn whose conversation was deleted while it was
\* suspended in streaming stores nothing, and no message row refers to the
\* deleted conversation; it ends with an error fragment when it has text to
\* persist (the write is rejected) or when the stream fails, and it ends in
\* Done, with no error fragment, when no text was received.
C37_DeletedTurnStoresNothing ==
    EndedWithoutConversation =>
        /\ ConvRows(chat.conversation_id) = <<>>
        /\ \A i \in 1..Len(messages) : messages[i].conversation_id \in conversations
        /\ Truthy(chat.full_response_content) =>
              /\ chat.pc = "Errored"
              /\ Len(obs.emitted) >= 2
        /\ chat.pc = "Done" =>
              /\ ~Truthy(chat.full_response_content)
              /\ \A i \in 1..Len(obs.emitted) : ~Truthy(obs.emitted[i])

\* Text was received, the conversation was deleted, and the write of the
\* assistant message was rejected.
C37_Witness ==
    /\ EndedWithoutConversation
    /\ chat.full_response_content = JStr("Hello")
    /\ obs.emitted = <<JStr("Hel"), JStr("lo"), ErrorFragment("IntegrityError")>>
    /\ ConvRows(chat.conversation_id) = <<>>

\* ---------------------------------------------------------------------
\* The turn after an errored turn
\* ---------------------------------------------------------------------
\* The caller is done with the generator (as EndTurn); what is remembered
\* is the errored turn, until another turn has run on its conversation.
EndTurnObserved ==
    /\ chat.pc \in {"Done", "Errored", "Raised", "Abandoned"}
    /\ chat' = IdleChat
    /\ obs' = IdleObs
    /\ prev' = IF chat.pc = "Errored"
               THEN [conversation_id |-> chat.conversation_id,
                     user_input |-> chat.user_input]
               ELSE IF chat.conversation_id = prev.conversation_id THEN NoTurn
               ELSE prev
    /\ UNCHANGED <<uow, app, storeVars, streamVars>>

NextErrored ==
    \/ Initialize
    \/ Close
    \/ CreateConversation(JNull)
    \/ \E c \in 1..MaxConversations, input \in UserInputs, stream \in BOOLEAN :
          StartTurn(c, input, stream)
    \/ LoadHistory
    \/ InvokeGatewayStream
    \/ \E outcome \in UnaryOutcomes : InvokeGatewayUnary(outcome)
    \/ AgentStreamEnds
    \/ AgentStreamFails
    \/ \E line \in Lines : AgentReadsLine(line)
    \/ Resume
    \/ EndTurnObserved

SpecErrored == Init /\ [][NextErrored]_vars

\* The exceptions the handler of Agent.chat may catch, and the texts of the
\* error fragments made from them.
TurnExceptions ==
    {"NetworkError", "JSONDecodeError", "TypeError", "KeyError", "IndexError",
     "AttributeError", "IntegrityError", "InterfaceError", "RuntimeError",
     "ValidationError"}

ErrorTexts == { ErrorFragment(exc).s : exc \in TurnExceptions }

\* The message list holds the user message of the errored turn besides the
\* user message of the turn in progress.
HoldsUnanswered(llm_messages) ==
    \E i, j \in 1..Len(llm_messages) :
        /\ i # j
        /\ llm_messages[i] = [role |-> "user", content |-> prev.user_input]
        /\ llm_messages[j] = [role |-> "user", content |-> chat.user_input]

\* C38: the error fragment of an errored turn is neither stored nor sent to
\* the model: no stored message carries an error text; a turn that ends in
\* Errored, with its error fragment emitted last, has added the user message
\* and nothing else; and the message list of the next turn on that
\* conversation holds the unanswered user message and no error text.
C38_ErrorFragmentNotPersisted ==
    /\ \A i \in 1..Len(messages) : messages[i].content \notin ErrorTexts
    /\ chat.pc = "Errored" =>
          /\ obs.emitted[Len(obs.emitted)].s \in ErrorTexts
          /\ Len(messages) = obs.startLen + 1
          /\ UserMessageCommitted
    /\ (chat.pc \notin {"Idle", "UserPersisted", "Raised"}
          /\ prev.conversation_id = chat.conversation_id) =>
          /\ HoldsUnanswered(chat.llm_messages)
          /\ \A i \in 1..Len(chat.llm_messages) :
                chat.llm_messages[i].content \notin ErrorTexts

\* The turn after an errored turn on the same conversation has assembled
\* its context: the system prompt, the unanswered message and the new one.
C38_Witness ==
    /\ chat.pc = "ContextAssembled"
    /\ prev.conversation_id = chat.conversation_id
    /\ Len(chat.llm_messages) = 3
    /\ HoldsUnanswered(chat.llm_messages)
    /\ Len(messages) = 2

====
